---- MODULE Spec2Model ----
(***************************************************************************)
(* A model of benches/hft_benchmark.rs: the Order record and its fill      *)
(* transition, the registries (HashMap / DashMap) the execution strategies *)
(* work on, the three three-phase strategies, the HFT simulation and the   *)
(* sustained-load ("trillion") strategies.                                 *)
(*                                                                         *)
(* Every specification below shares the same variables; a specification    *)
(* leaves the variables it does not use at their idle value.               *)
(*                                                                         *)
(* Order fields side, order_type, price and timestamp are written once by  *)
(* Order::new from the random source and are read by no code of the        *)
(* benchmark; they are left out of the record.  quantity is drawn from     *)
(* 1..10000 in the source (line 51) and from 1..MaxQty here, so the u64    *)
(* additions of update_fill stay far from 2^64.                            *)
(***************************************************************************)
EXTENDS Integers, Sequences, FiniteSets, TLC

\* ------------------------------------------------------------------ bounds
MaxQty == 5
    \* Order::new draws quantity from 1..MaxQty
MaxFill == 10
    \* fill quantities handed to update_fill directly: 0..MaxFill
NumOrders == 3
    \* orders of the registry that fills are applied to one by one
MaxLog == 2
    \* fills applied one by one to that registry
NumShards == 2
    \* shards of a DashMap (the source takes 4 * cpus, rounded up to 2^k)
MaxDataSize == 3
    \* data_size of the three-phase strategies: 1..MaxDataSize
WorkQty == 2
    \* quantity Order::new draws inside the strategies: 1..WorkQty
HftOrders == 2
    \* orders of the HFT simulation (1000 in the source, line 441)
HftUpdates == 2
    \* update units of the HFT simulation (10000 in the source, line 406)
MaxBatchSize == 2
    \* batch_size of the sustained-load strategies: 1..MaxBatchSize
MaxBatches == 3
    \* batches of the sustained-load strategies: 1..MaxBatches
MaxTransactions == 4
    \* batch_size * batches of one sustained-load run (10^8 in the source)
MaxExchanges == 2
    \* exchanges of create_nested_order_data: 1..MaxExchanges
MaxOrdersPerExchange == 2
    \* orders_per_exchange of create_nested_order_data: 1..MaxOrdersPerExchange
MaxResults == 2
    \* results handed to SimplePlotter::add_result one by one
MaxSegments == 3
    \* "/"-separated segments of the names handed to parse_benchmark_name
MaxEntries == 2
    \* entries of the target/criterion directory

\* ------------------------------------------------------- program constants
CleanupEvery == 1000
    \* if batch % 1000 == 0 { order_map.retain(..) }

\* ------------------------------------------------------------ Order model
OrderStatus == {"New", "PartiallyFilled", "Filled", "Cancelled", "Rejected"}

Min(a, b) == IF a <= b THEN a ELSE b

\* format!("ORD_{}", i)
OrderKey(i) == "ORD_" \o ToString(i)

\* format!("ORD_{}_{}", batch, i)
BatchKey(b, i) == "ORD_" \o ToString(b) \o "_" \o ToString(i)

\* format!("STOCK_{}", i % 1000)
SymbolOf(i) == "STOCK_" \o ToString(i % 1000)

\* format!("CLIENT_{}", i % 100)
ClientOf(i) == "CLIENT_" \o ToString(i % 100)

\* Order::new(order_id, symbol, client_id); quantity is the value the random
\* source yields for rng.gen_range(1..10000).
NewOrder(order_id, symbol, client_id, quantity) ==
    [ order_id |-> order_id,
      symbol |-> symbol,
      quantity |-> quantity,
      filled_quantity |-> 0,
      remaining_quantity |-> quantity,
      status |-> "New",
      client_id |-> client_id ]

\* update_fill without the clamp of line 73
update_fill_unclamped(order, fill_quantity) ==
    LET filled == order.filled_quantity + fill_quantity
        remaining == order.remaining_quantity - fill_quantity
    IN  [order EXCEPT !.filled_quantity = filled,
                      !.remaining_quantity = remaining,
                      !.status = IF remaining = 0 THEN "Filled"
                                 ELSE "PartiallyFilled"]

\* update_fill clamping to the order's quantity instead of what remains
update_fill_clamp_quantity(order, fill_quantity) ==
    LET actual_fill == Min(fill_quantity, order.quantity)
        filled == order.filled_quantity + actual_fill
        remaining == order.remaining_quantity - actual_fill
    IN  [order EXCEPT !.filled_quantity = filled,
                      !.remaining_quantity = remaining,
                      !.status = IF remaining = 0 THEN "Filled"
                                 ELSE "PartiallyFilled"]

\* update_fill assigning the fill to filled_quantity instead of adding it
update_fill_assigning(order, fill_quantity) ==
    LET actual_fill == Min(fill_quantity, order.remaining_quantity)
        remaining == order.remaining_quantity - actual_fill
    IN  [order EXCEPT !.filled_quantity = actual_fill,
                      !.remaining_quantity = remaining,
                      !.status = IF remaining = 0 THEN "Filled"
                                 ELSE "PartiallyFilled"]

\* Order::update_fill(&mut self, fill_quantity)
update_fill(order, fill_quantity) ==
    LET actual_fill == Min(fill_quantity, order.remaining_quantity)
        filled == order.filled_quantity + actual_fill
        remaining == order.remaining_quantity - actual_fill
    IN  [order EXCEPT !.filled_quantity = filled,
                      !.remaining_quantity = remaining,
                      !.status = IF remaining = 0 THEN "Filled"
                                 ELSE "PartiallyFilled"]

\* ---------------------------------------------------------------- registry
\* HashMap::new() / DashMap::new()
EmptyMap == [k \in {} |-> 0]

\* order_map.insert(key, order)
MapInsert(m, key, order) ==
    [k \in DOMAIN m \cup {key} |-> IF k = key THEN order ELSE m[k]]

\* a fill that reaches every order of the registry, not only the one looked up
MapUpdateFillEvery(m, key, fill_quantity) ==
    IF key \in DOMAIN m
    THEN [k \in DOMAIN m |-> update_fill(m[k], fill_quantity)]
    ELSE m

\* if let Some(order) = order_map.get_mut(&key) { order.update_fill(fill) }
MapUpdateFill(m, key, fill_quantity) ==
    IF key \in DOMAIN m
    THEN [m EXCEPT ![key] = update_fill(@, fill_quantity)]
    ELSE m

\* key -> (filled_quantity, remaining_quantity, status)
Fills(m) ==
    [k \in DOMAIN m |->
        <<m[k].filled_quantity, m[k].remaining_quantity, m[k].status>>]

\* ------------------------------------------------------------------- state
VARIABLES
    order_map,   \* the registry of the running trial: key -> Order
    shard_lock,  \* DashMap: shard -> the unit holding its write guard, or NoUnit
    pc,          \* position of the driver (the benchmark function being run)
    idx,         \* loop variable i of the sequential loops
    batch,       \* loop variable batch of the sustained-load loops
    tasks,       \* the task vectors handed to join_all: name -> index -> unit
    workload,    \* the inputs of the trial: sizes and the random source's draws
    outcome,     \* history: strategy -> Fills of its registry when it returned
    calls,       \* history: the registry calls of the running trial, per key
    last,        \* history: the last registry call (op, key, quantity, registry before)
    fill_log,    \* history: the fill calls made so far, <<key, quantity>>
    nested_orders, \* flatten: exchange -> order key -> Order
    flattened,   \* flatten: the map being built by the running flatten function
    results,     \* SimplePlotter.results: the Vec<BenchmarkResult>
    report       \* history: what the last reporting call of the plotter derived

vars == <<order_map, shard_lock, pc, idx, batch, tasks, workload, outcome,
          calls, last, fill_log, nested_orders, flattened, results, report>>

\* the variables of the flatten functions and of the plotter
flattenVars == <<nested_orders, flattened>>
plotterVars == <<results, report>>
NoReport == [op |-> "none"]

NoUnit == <<>>
NoCall == [op |-> "none", key |-> "", qty |-> 0, before |-> EmptyMap]
NoLocks == [s \in 0..(NumShards - 1) |-> NoUnit]

\* the variables of the drivers, idle while update_fill is exercised directly
driverVars ==
    <<shard_lock, pc, idx, batch, tasks, workload, outcome, calls,
      flattenVars, plotterVars>>

FlattenIdle == nested_orders = EmptyMap /\ flattened = EmptyMap
PlotterIdle == results = <<>> /\ report = NoReport

DriverIdle ==
    /\ shard_lock = NoLocks
    /\ pc = "idle"
    /\ idx = 0
    /\ batch = 0
    /\ tasks = <<>>
    /\ workload = <<>>
    /\ outcome = <<>>
    /\ calls = <<>>
    /\ FlattenIdle
    /\ PlotterIdle

\* ------------------------------------------------ update_fill on one order
\* One order as Order::new returns it.
InitOrder ==
    /\ \E q \in 1..MaxQty :
          order_map = MapInsert(EmptyMap, OrderKey(0),
                                NewOrder(0, SymbolOf(0), ClientOf(0), q))
    /\ last = NoCall
    /\ fill_log = <<>>
    /\ DriverIdle

\* order.update_fill(x) for any x the caller may pass
UpdateFillCall ==
    \E x \in 0..MaxFill :
        /\ order_map' = MapUpdateFill(order_map, OrderKey(0), x)
        /\ last' = [op |-> "update_fill", key |-> OrderKey(0), qty |-> x,
                    before |-> order_map]
        /\ UNCHANGED <<fill_log, driverVars>>

NextOrder == UpdateFillCall

SpecOrder == InitOrder /\ [][NextOrder]_vars

\* the order the last update_fill call was made on, before and after the call
LastBefore == last.before[last.key]
LastAfter == order_map[last.key]

\* C1: every order keeps filled_quantity + remaining_quantity = quantity, with
\* both parts inside 0..quantity, from Order::new on and after any sequence of
\* update_fill calls with any fill quantity (0 and over-large ones included).
QuantitiesConserved ==
    \A k \in DOMAIN order_map :
        /\ order_map[k].filled_quantity + order_map[k].remaining_quantity
              = order_map[k].quantity
        /\ order_map[k].filled_quantity \in 0..order_map[k].quantity
        /\ order_map[k].remaining_quantity \in 0..order_map[k].quantity

\* a partially filled order has just been handed more than what remained
OverfillApplied ==
    /\ last.op = "update_fill"
    /\ LastBefore.status = "PartiallyFilled"
    /\ LastBefore.remaining_quantity > 0
    /\ last.qty > LastBefore.remaining_quantity
    /\ LastAfter.filled_quantity = LastAfter.quantity

\* C2: the status is a function of the quantities: remaining = 0 gives Filled,
\* 0 < filled < quantity gives PartiallyFilled, filled = 0 gives New.
StatusFollowsQuantities ==
    \A k \in DOMAIN order_map :
        LET o == order_map[k] IN
        /\ o.remaining_quantity = 0 => o.status = "Filled"
        /\ (0 < o.filled_quantity /\ o.filled_quantity < o.quantity)
              => o.status = "PartiallyFilled"
        /\ o.filled_quantity = 0 => o.status = "New"

\* C3: update_fill(order, 0) changes nothing of the order, whatever its state.
ZeroFillIsNoOp ==
    (last.op = "update_fill" /\ last.qty = 0) => order_map = last.before

\* C4: a fill quantity above remaining_quantity leaves the order exactly as a
\* fill of remaining_quantity does: remaining 0 and filled = quantity.
OverfillClamps ==
    (last.op = "update_fill" /\ last.qty > LastBefore.remaining_quantity)
        => /\ LastAfter = update_fill(LastBefore, LastBefore.remaining_quantity)
           /\ LastAfter.remaining_quantity = 0
           /\ LastAfter.filled_quantity = LastAfter.quantity
           /\ LastAfter.status = "Filled"

\* an untouched order has just been handed more than its whole quantity
OverfillOfNewOrder ==
    /\ last.op = "update_fill"
    /\ LastBefore.status = "New"
    /\ last.qty > LastBefore.quantity
    /\ LastAfter.status = "Filled"

\* -------------------------------------- fills applied to a registry of orders
RegistryKeys == {OrderKey(i) : i \in 0..(NumOrders - 1)}

\* NumOrders orders as the create phase leaves them (lines 91-97), here all of
\* one quantity; what update_fill does to an order of any quantity is SpecOrder's.
InitRegistry ==
    /\ \E q \in 1..MaxQty :
          order_map = [k \in RegistryKeys |->
                LET i == CHOOSE j \in 0..(NumOrders - 1) : OrderKey(j) = k
                IN  NewOrder(i, SymbolOf(i), ClientOf(i), q)]
    /\ last = NoCall
    /\ fill_log = <<>>
    /\ DriverIdle

\* get_mut(&key) and update_fill(x) on the order found
FillOrder ==
    /\ Len(fill_log) < MaxLog
    /\ \E i \in 0..(NumOrders - 1), x \in 0..MaxFill :
        /\ order_map' = MapUpdateFill(order_map, OrderKey(i), x)
        /\ last' = [op |-> "update_fill", key |-> OrderKey(i), qty |-> x,
                    before |-> order_map]
        /\ fill_log' = Append(fill_log, <<OrderKey(i), x>>)
        /\ UNCHANGED driverVars

NextRegistry == FillOrder

SpecRegistry == InitRegistry /\ [][NextRegistry]_vars

\* every order other than the first is New with nothing filled of its 5
OthersNewOfFive ==
    \A k \in DOMAIN order_map \ {OrderKey(0)} :
        /\ order_map[k].quantity = 5
        /\ Fills(order_map)[k] = <<0, 5, "New">>

\* C5: a fill changes only the order it is applied to: the key set and every
\* other order stay as they were.  With orders of quantity 5: filling the first
\* by 3 gives PartiallyFilled(3,2), filling it then by 10 gives Filled(5,0),
\* and the other orders stay New(0,5).
FillChangesOnlyItsOrder ==
    /\ last.op = "update_fill" =>
          /\ DOMAIN order_map = DOMAIN last.before
          /\ \A k \in DOMAIN order_map \ {last.key} :
                order_map[k] = last.before[k]
    /\ ((\A k \in DOMAIN order_map : order_map[k].quantity = 5)
            /\ fill_log = << <<OrderKey(0), 3>> >>)
          => /\ Fills(order_map)[OrderKey(0)] = <<3, 2, "PartiallyFilled">>
             /\ OthersNewOfFive
    /\ ((\A k \in DOMAIN order_map : order_map[k].quantity = 5)
            /\ fill_log = << <<OrderKey(0), 3>>, <<OrderKey(0), 10>> >>)
          => /\ Fills(order_map)[OrderKey(0)] = <<5, 0, "Filled">>
             /\ OthersNewOfFive

\* three orders of 5, the first filled by 3 and then by 10
ScenarioPlayed ==
    /\ Cardinality(DOMAIN order_map) = 3
    /\ \A k \in DOMAIN order_map : order_map[k].quantity = 5
    /\ fill_log = << <<OrderKey(0), 3>>, <<OrderKey(0), 10>> >>
    /\ order_map[OrderKey(0)].status = "Filled"

\* the steps of an order's status that the lifecycle allows
ForwardSteps ==
    { <<"New", "PartiallyFilled">>, <<"New", "Filled">>,
      <<"PartiallyFilled", "PartiallyFilled">>,
      <<"PartiallyFilled", "Filled">>, <<"Filled", "Filled">> }

\* C26: the order lifecycle is forward-only: whatever fills are applied to the
\* orders of a registry, in whatever order, the order a fill is applied to takes
\* one of the steps New -> PartiallyFilled, New -> Filled, PartiallyFilled ->
\* PartiallyFilled, PartiallyFilled -> Filled, Filled -> Filled; no order is
\* ever Cancelled or Rejected, a Filled order stays Filled, and no order's
\* filled_quantity decreases.
LifecycleForwardOnly ==
    [][ /\ DOMAIN order_map' = DOMAIN order_map
        /\ last'.op = "update_fill"
        /\ <<order_map[last'.key].status, order_map'[last'.key].status>>
                \in ForwardSteps
        /\ \A k \in DOMAIN order_map :
              /\ order_map'[k].status \notin {"Cancelled", "Rejected"}
              /\ order_map[k].status = "Filled"
                    => order_map'[k].status = "Filled"
              /\ order_map'[k].filled_quantity >= order_map[k].filled_quantity
              /\ k # last'.key => order_map'[k].status = order_map[k].status
      ]_vars

\* an order that a first fill had filled has been filled again, and is as it was
FilledOrderFilledAgain ==
    /\ Len(fill_log) = 2
    /\ \A i \in 1..2 : fill_log[i][1] = last.key /\ fill_log[i][2] > 0
    /\ last.op = "update_fill"
    /\ last.before[last.key].status = "Filled"
    /\ order_map[last.key] = last.before[last.key]

\* ------------------------------------------------------- DashMap and units
\* The shard of a key.  DashMap picks it from the key's hash; the hash is
\* stood for by the numbers the key was formatted from, so that some keys
\* share a shard and some do not.
HashRange ==
    MaxDataSize + NumOrders + HftOrders + MaxBatches + MaxBatchSize

KeyHash(key) ==
    CHOOSE h \in 0..HashRange :
        \/ key = OrderKey(h)
        \/ \E b \in 0..h : key = BatchKey(b, h - b)

Shard(key) == KeyHash(key) % NumShards

\* history: one more call on key k
BagAdd(b, k) ==
    [x \in DOMAIN b \cup {k} |->
        (IF x \in DOMAIN b THEN b[x] ELSE 0) + (IF x = k THEN 1 ELSE 0)]

NoCalls == [create |-> EmptyMap, read |-> EmptyMap, fill |-> EmptyMap,
            retain |-> 0]

Called(op, key) == [calls EXCEPT ![op] = BagAdd(@, key)]

\* One unit of work: an async block handed to join_all.  pc is its position,
\* key the key it formats, found what its lookup returned, fill the quantity
\* it drew, cur the order as it saw it through its guard.
NoOrder == <<>>

NewUnit(key) ==
    [pc |-> "pending", key |-> key, found |-> FALSE, fill |-> 0, cur |-> NoOrder]

Unit(vec, i) == tasks[vec][i]

Joined(vec) == \A i \in DOMAIN tasks[vec] : Unit(vec, i).pc = "done"

\* order_map.insert(key, order) of a unit: takes the shard's write lock for
\* the call
UnitInsert(vec, i, order, next) ==
    LET u == Unit(vec, i) IN
    /\ u.pc = "pending"
    /\ shard_lock[Shard(u.key)] = NoUnit
    /\ order_map' = MapInsert(order_map, u.key, order)
    /\ tasks' = [tasks EXCEPT ![vec][i].pc = next]
    /\ calls' = Called("create", u.key)
    /\ UNCHANGED shard_lock

\* black_box(order_map.get(&key)) of a unit: the Ref is dropped with the
\* statement
UnitGet(vec, i) ==
    LET u == Unit(vec, i) IN
    /\ u.pc = "pending"
    /\ shard_lock[Shard(u.key)] = NoUnit
    /\ tasks' = [tasks EXCEPT ![vec][i].pc = "done",
                              ![vec][i].found = (u.key \in DOMAIN order_map)]
    /\ calls' = Called("read", u.key)
    /\ UNCHANGED <<order_map, shard_lock>>

\* order_map.get_mut(&key) of a unit: blocks while the shard is locked; Some
\* keeps the shard's write lock in the RefMut, None releases it at once
UnitGetMut(vec, i, from, key) ==
    /\ Unit(vec, i).pc = from
    /\ shard_lock[Shard(key)] = NoUnit
    /\ IF key \in DOMAIN order_map
       THEN /\ shard_lock' = [shard_lock EXCEPT ![Shard(key)] = <<vec, i>>]
            /\ tasks' = [tasks EXCEPT ![vec][i].pc = "locked",
                                      ![vec][i].key = key,
                                      ![vec][i].found = TRUE,
                                      ![vec][i].cur = order_map[key]]
       ELSE /\ tasks' = [tasks EXCEPT ![vec][i].pc = "done",
                                      ![vec][i].key = key]
            /\ UNCHANGED shard_lock
    /\ calls' = Called("fill", key)
    /\ UNCHANGED order_map

\* the unit filling only an order of which more than 1 remains
UnitFillAboveOne(vec, i, fill_qty) ==
    LET u == Unit(vec, i) IN
    /\ u.pc = "locked"
    /\ IF order_map[u.key].remaining_quantity > 1
       THEN /\ fill_qty \in 1..order_map[u.key].remaining_quantity
            /\ order_map' = MapUpdateFill(order_map, u.key, fill_qty)
            /\ tasks' = [tasks EXCEPT ![vec][i].pc = "filled",
                                      ![vec][i].fill = fill_qty]
       ELSE /\ tasks' = [tasks EXCEPT ![vec][i].pc = "filled"]
            /\ UNCHANGED order_map
    /\ UNCHANGED <<shard_lock, calls>>

\* if order.remaining_quantity > 0 { order.update_fill(fill_qty) } through the
\* RefMut, fill_qty drawn from 1..=remaining_quantity
UnitFill(vec, i, fill_qty) ==
    LET u == Unit(vec, i) IN
    /\ u.pc = "locked"
    /\ IF order_map[u.key].remaining_quantity > 0
       THEN /\ fill_qty \in 1..order_map[u.key].remaining_quantity
            /\ order_map' = MapUpdateFill(order_map, u.key, fill_qty)
            /\ tasks' = [tasks EXCEPT ![vec][i].pc = "filled",
                                      ![vec][i].fill = fill_qty]
       ELSE /\ fill_qty = 0
            /\ tasks' = [tasks EXCEPT ![vec][i].pc = "filled"]
            /\ UNCHANGED order_map
    /\ UNCHANGED <<shard_lock, calls>>

\* the unit ending with its RefMut kept alive: the shard's lock is not released
UnitDropKeepingLock(vec, i) ==
    LET u == Unit(vec, i) IN
    /\ u.pc = "filled"
    /\ tasks' = [tasks EXCEPT ![vec][i].pc = "done"]
    /\ UNCHANGED <<order_map, shard_lock, calls>>

\* the RefMut goes out of scope: the shard's lock is released
UnitDrop(vec, i) ==
    LET u == Unit(vec, i) IN
    /\ u.pc = "filled"
    /\ shard_lock' = [shard_lock EXCEPT ![Shard(u.key)] = NoUnit]
    /\ tasks' = [tasks EXCEPT ![vec][i].pc = "done"]
    /\ UNCHANGED <<order_map, calls>>

\* ------------------------------------------------- three-phase strategies
\* The harness runs sync_order_operations, sync_concurrent_order_operations
\* and async_order_operations one after the other, each on a registry of its
\* own.  workload holds data_size and, for order i, the quantity and the fill
\* quantity the random source yields; the three runs are given the same ones.
WorkloadsOf(n) ==
    { w \in [data_size : {n},
             qty : [0..(n - 1) -> 1..WorkQty],
             fill : [0..(n - 1) -> 1..WorkQty]] :
        \A i \in 0..(n - 1) : w.fill[i] <= w.qty[i] }

Workloads == UNION { WorkloadsOf(n) : n \in 1..MaxDataSize }

InitStrategies ==
    /\ workload \in Workloads
    /\ order_map = EmptyMap
    /\ shard_lock = NoLocks
    /\ pc = "sync_create"
    /\ idx = 0
    /\ batch = 0
    /\ tasks = [write_tasks |-> <<>>, read_tasks |-> <<>>, update_tasks |-> <<>>]
    /\ outcome = EmptyMap
    /\ calls = NoCalls
    /\ last = NoCall
    /\ fill_log = <<>>
    /\ FlattenIdle
    /\ PlotterIdle

strategyFrame ==
    <<batch, workload, last, fill_log, flattenVars, plotterVars>>

\* Order::new(i as u64, symbol, client_id) of the create phase
OrderOf(i) == NewOrder(i, SymbolOf(i), ClientOf(i), workload.qty[i])

\* for i in 0..data_size: the loop goes on, or the next phase begins
LoopStep(next) ==
    IF idx + 1 < workload.data_size
    THEN pc' = pc /\ idx' = idx + 1
    ELSE pc' = next /\ idx' = 0

\* the function returns: its registry is dropped, the next one starts empty
Return(strategy, next) ==
    /\ outcome' = MapInsert(outcome, strategy,
                            [fills |-> Fills(order_map), calls |-> calls])
    /\ order_map' = EmptyMap
    /\ calls' = NoCalls
    /\ pc' = next

\* sync_order_operations, lines 91-97
SyncCreate ==
    /\ pc = "sync_create"
    /\ order_map' = MapInsert(order_map, OrderKey(idx), OrderOf(idx))
    /\ calls' = Called("create", OrderKey(idx))
    /\ LoopStep("sync_read")
    /\ UNCHANGED <<shard_lock, tasks, outcome, strategyFrame>>

\* sync_order_operations, lines 100-103
SyncRead ==
    /\ pc = "sync_read"
    /\ calls' = Called("read", OrderKey(idx))
    /\ LoopStep("sync_update")
    /\ UNCHANGED <<order_map, shard_lock, tasks, outcome, strategyFrame>>

\* sync_order_operations, lines 106-114
SyncUpdate ==
    /\ pc = "sync_update"
    /\ LET key == OrderKey(idx) IN
       IF key \in DOMAIN order_map /\ order_map[key].remaining_quantity > 0
       THEN /\ workload.fill[idx] \in 1..order_map[key].remaining_quantity
            /\ order_map' = MapUpdateFill(order_map, key, workload.fill[idx])
       ELSE UNCHANGED order_map
    /\ calls' = Called("fill", OrderKey(idx))
    /\ LoopStep("sync_return")
    /\ UNCHANGED <<shard_lock, tasks, outcome, strategyFrame>>

\* sync_order_operations, line 115
SyncReturn ==
    /\ pc = "sync_return"
    /\ Return("sync", "concurrent_create")
    /\ UNCHANGED <<shard_lock, idx, tasks, strategyFrame>>

\* sync_concurrent_order_operations, lines 122-128
ConcurrentCreate ==
    /\ pc = "concurrent_create"
    /\ shard_lock[Shard(OrderKey(idx))] = NoUnit
    /\ order_map' = MapInsert(order_map, OrderKey(idx), OrderOf(idx))
    /\ calls' = Called("create", OrderKey(idx))
    /\ LoopStep("concurrent_read")
    /\ UNCHANGED <<shard_lock, tasks, outcome, strategyFrame>>

\* sync_concurrent_order_operations, lines 131-134
ConcurrentRead ==
    /\ pc = "concurrent_read"
    /\ shard_lock[Shard(OrderKey(idx))] = NoUnit
    /\ calls' = Called("read", OrderKey(idx))
    /\ LoopStep("concurrent_update")
    /\ UNCHANGED <<order_map, shard_lock, tasks, outcome, strategyFrame>>

\* the update loop filling a clone of the order, not the order under the guard
ConcurrentUpdateOnClone ==
    /\ pc = "concurrent_update"
    /\ calls' = Called("fill", OrderKey(idx))
    /\ LoopStep("concurrent_return")
    /\ UNCHANGED <<order_map, shard_lock, tasks, outcome, strategyFrame>>

\* sync_concurrent_order_operations, lines 137-145: the RefMut is taken and
\* dropped inside one iteration
ConcurrentUpdate ==
    /\ pc = "concurrent_update"
    /\ shard_lock[Shard(OrderKey(idx))] = NoUnit
    /\ LET key == OrderKey(idx) IN
       IF key \in DOMAIN order_map /\ order_map[key].remaining_quantity > 0
       THEN /\ workload.fill[idx] \in 1..order_map[key].remaining_quantity
            /\ order_map' = MapUpdateFill(order_map, key, workload.fill[idx])
       ELSE UNCHANGED order_map
    /\ calls' = Called("fill", OrderKey(idx))
    /\ LoopStep("concurrent_return")
    /\ UNCHANGED <<shard_lock, tasks, outcome, strategyFrame>>

\* sync_concurrent_order_operations, line 146
ConcurrentReturn ==
    /\ pc = "concurrent_return"
    /\ Return("concurrent", "async_start")
    /\ UNCHANGED <<shard_lock, idx, tasks, strategyFrame>>

\* the units of a phase without the one of the last index
UnitsOfAllButLast(n) == [i \in 0..(n - 2) |-> NewUnit(OrderKey(i))]

\* the units of one phase, one per index, each with the key it formats
UnitsOf(n) == [i \in 0..(n - 1) |-> NewUnit(OrderKey(i))]

\* async_order_operations, lines 153-166: write_tasks is collected and handed
\* to join_all
SpawnWrite ==
    /\ pc = "async_start"
    /\ tasks' = [tasks EXCEPT !.write_tasks = UnitsOf(workload.data_size)]
    /\ pc' = "join_write"
    /\ UNCHANGED <<order_map, shard_lock, idx, outcome, calls, strategyFrame>>

\* a unit of write_tasks, lines 157-161
WriteTask ==
    /\ pc = "join_write"
    /\ \E i \in DOMAIN tasks.write_tasks :
          UnitInsert("write_tasks", i, OrderOf(i), "done")
    /\ UNCHANGED <<pc, idx, outcome, strategyFrame>>

\* join_all(write_tasks) returning with units still pending
JoinWriteEarly ==
    /\ pc = "join_write"
    /\ tasks' = [tasks EXCEPT !.read_tasks = UnitsOf(workload.data_size)]
    /\ pc' = "join_read"
    /\ UNCHANGED <<order_map, shard_lock, idx, outcome, calls, strategyFrame>>

\* join_all(write_tasks).await returns, lines 166-177: read_tasks is collected
JoinWrite ==
    /\ pc = "join_write"
    /\ Joined("write_tasks")
    /\ tasks' = [tasks EXCEPT !.read_tasks = UnitsOf(workload.data_size)]
    /\ pc' = "join_read"
    /\ UNCHANGED <<order_map, shard_lock, idx, outcome, calls, strategyFrame>>

\* a unit of read_tasks, lines 173-174
ReadTask ==
    /\ pc = "join_read"
    /\ \E i \in DOMAIN tasks.read_tasks : UnitGet("read_tasks", i)
    /\ UNCHANGED <<pc, idx, outcome, strategyFrame>>

\* join_all(read_tasks).await returns, lines 179-196: update_tasks is collected
JoinRead ==
    /\ pc = "join_read"
    /\ Joined("read_tasks")
    /\ tasks' = [tasks EXCEPT !.update_tasks = UnitsOf(workload.data_size)]
    /\ pc' = "join_update"
    /\ UNCHANGED <<order_map, shard_lock, idx, outcome, calls, strategyFrame>>

\* a unit of update_tasks, lines 186-187
UpdateGetMut ==
    /\ pc = "join_update"
    /\ \E i \in DOMAIN tasks.update_tasks :
          UnitGetMut("update_tasks", i, "pending", OrderKey(i))
    /\ UNCHANGED <<pc, idx, outcome, strategyFrame>>

\* a unit of update_tasks, lines 188-192
UpdateFill ==
    /\ pc = "join_update"
    /\ \E i \in DOMAIN tasks.update_tasks :
          UnitFill("update_tasks", i,
                   IF order_map[OrderKey(i)].remaining_quantity > 0
                   THEN workload.fill[i] ELSE 0)
    /\ UNCHANGED <<pc, idx, outcome, strategyFrame>>

\* a unit of update_tasks, line 193
UpdateDrop ==
    /\ pc = "join_update"
    /\ \E i \in DOMAIN tasks.update_tasks : UnitDrop("update_tasks", i)
    /\ UNCHANGED <<pc, idx, outcome, strategyFrame>>

\* join_all(update_tasks).await returns, line 198
JoinUpdate ==
    /\ pc = "join_update"
    /\ Joined("update_tasks")
    /\ pc' = "async_return"
    /\ UNCHANGED <<order_map, shard_lock, idx, tasks, outcome, calls,
                   strategyFrame>>

\* async_order_operations, line 199
AsyncReturn ==
    /\ pc = "async_return"
    /\ Return("async", "done")
    /\ UNCHANGED <<shard_lock, idx, tasks, strategyFrame>>

NextStrategies ==
    \/ SyncCreate \/ SyncRead \/ SyncUpdate \/ SyncReturn
    \/ ConcurrentCreate \/ ConcurrentRead \/ ConcurrentUpdate
    \/ ConcurrentReturn
    \/ SpawnWrite \/ WriteTask \/ JoinWrite \/ ReadTask \/ JoinRead
    \/ UpdateGetMut \/ UpdateFill \/ UpdateDrop \/ JoinUpdate \/ AsyncReturn

SpecStrategies == InitStrategies /\ [][NextStrategies]_vars

\* C6: given the same workload, the three strategies end with the same
\* key -> (filled_quantity, remaining_quantity, status), whatever the order
\* in which the units of async_order_operations ran.
StrategiesAgree ==
    pc = "done" =>
        /\ outcome["sync"].fills = outcome["concurrent"].fills
        /\ outcome["sync"].fills = outcome["async"].fills

\* all three have returned, with one order partly and one wholly filled
AllStrategiesReturned ==
    /\ pc = "done"
    /\ DOMAIN outcome = {"sync", "concurrent", "async"}
    /\ \E k \in DOMAIN outcome["async"].fills :
          outcome["async"].fills[k][3] = "PartiallyFilled"
    /\ \E k \in DOMAIN outcome["async"].fills :
          outcome["async"].fills[k][3] = "Filled"

\* C7: the phases of async_order_operations are join points: no read unit
\* starts before every create unit is done, no update unit before every read
\* unit is done, so every read and every update finds its key.
PhasesAreJoinPoints ==
    /\ (\E i \in DOMAIN tasks.read_tasks : Unit("read_tasks", i).pc # "pending")
          => Joined("write_tasks")
    /\ (\E i \in DOMAIN tasks.update_tasks :
              Unit("update_tasks", i).pc # "pending")
          => Joined("read_tasks")
    /\ \A i \in DOMAIN tasks.read_tasks :
          Unit("read_tasks", i).pc = "done" => Unit("read_tasks", i).found
    /\ \A i \in DOMAIN tasks.update_tasks :
          Unit("update_tasks", i).pc # "pending" => Unit("update_tasks", i).found

\* an update unit holds its order while another has not started
UpdateUnderWay ==
    /\ pc = "join_update"
    /\ \E i, j \in DOMAIN tasks.update_tasks :
          /\ Unit("update_tasks", i).pc = "locked"
          /\ Unit("update_tasks", i).found
          /\ Unit("update_tasks", j).pc = "pending"

\* the keys of the workload, ORD_0 .. ORD_{n-1}, and one call on each
WorkloadKeys == {OrderKey(i) : i \in 0..(workload.data_size - 1)}

OncePerKey == [k \in WorkloadKeys |-> 1]

\* the positions of the drivers after the create phase of their strategy
AfterCreatePhase ==
    {"sync_read", "sync_update", "sync_return",
     "concurrent_read", "concurrent_update", "concurrent_return",
     "join_read", "join_update", "async_return"}

\* C24: for a data_size n each of the three strategies makes exactly n
\* creates under the pairwise distinct keys ORD_0..ORD_{n-1}, so that its
\* registry holds exactly n orders after the create phase, exactly one read
\* per key and exactly one fill attempt per order, which fills the order by
\* the quantity drawn for it; no key is created, read or filled twice and
\* none is skipped, in whatever order the units run.
SameWorkloadOncePerKey ==
    /\ \A i, j \in 0..(workload.data_size - 1) :
          i # j => OrderKey(i) # OrderKey(j)
    /\ Cardinality(WorkloadKeys) = workload.data_size
    /\ \A op \in {"create", "read", "fill"} :
          \A k \in DOMAIN calls[op] : k \in WorkloadKeys /\ calls[op][k] = 1
    /\ calls.retain = 0
    /\ pc \in AfterCreatePhase =>
          /\ calls.create = OncePerKey
          /\ DOMAIN order_map = WorkloadKeys
    /\ pc \in {"sync_update", "concurrent_update", "join_update"} =>
          calls.read = OncePerKey
    /\ \A strategy \in DOMAIN outcome :
          /\ outcome[strategy].calls =
                [create |-> OncePerKey, read |-> OncePerKey,
                 fill |-> OncePerKey, retain |-> 0]
          /\ DOMAIN outcome[strategy].fills = WorkloadKeys
          /\ \A i \in 0..(workload.data_size - 1) :
                outcome[strategy].fills[OrderKey(i)][1] = workload.fill[i]
    /\ pc = "done" => DOMAIN outcome = {"sync", "concurrent", "async"}

\* the three strategies have returned from a workload of the largest size
LargestWorkloadDone ==
    /\ pc = "done"
    /\ workload.data_size = MaxDataSize
    /\ DOMAIN outcome = {"sync", "concurrent", "async"}
    /\ outcome["async"].calls.fill = OncePerKey

\* ---------------------------------------------------------- HFT simulation
\* async_hft_orders, lines 435-476: init_tasks populate the registry, then
\* every unit of update_tasks draws a key and fills the order under it, so
\* several units may meet on one order.  Here update_fill's stores through the
\* RefMut are taken one at a time: filled_quantity (line 74), then
\* remaining_quantity and status (lines 75-81), on the values the unit read
\* through its guard.
\* get_mut handing out the order without taking the shard's lock
UnitGetMutUnlocked(vec, i, from, key) ==
    /\ Unit(vec, i).pc = from
    /\ IF key \in DOMAIN order_map
       THEN /\ shard_lock' = [shard_lock EXCEPT ![Shard(key)] = <<vec, i>>]
            /\ tasks' = [tasks EXCEPT ![vec][i].pc = "locked",
                                      ![vec][i].key = key,
                                      ![vec][i].found = TRUE,
                                      ![vec][i].cur = order_map[key]]
       ELSE /\ tasks' = [tasks EXCEPT ![vec][i].pc = "done",
                                      ![vec][i].key = key]
            /\ UNCHANGED shard_lock
    /\ calls' = Called("fill", key)
    /\ UNCHANGED order_map

\* line 74 after lines 464-465 and 73: self.filled_quantity += actual_fill
UnitStoreFilled(vec, i, fill_qty) ==
    LET u == Unit(vec, i) IN
    /\ u.pc = "locked"
    /\ IF u.cur.remaining_quantity > 0
       THEN /\ fill_qty \in 1..u.cur.remaining_quantity
            /\ order_map' = [order_map EXCEPT ![u.key].filled_quantity =
                                update_fill(u.cur, fill_qty).filled_quantity]
            /\ tasks' = [tasks EXCEPT ![vec][i].pc = "mid",
                                      ![vec][i].fill = fill_qty]
       ELSE /\ fill_qty = 0
            /\ tasks' = [tasks EXCEPT ![vec][i].pc = "filled"]
            /\ UNCHANGED order_map
    /\ UNCHANGED <<shard_lock, calls>>

\* lines 75-81: self.remaining_quantity -= actual_fill; self.status = ...
UnitStoreRemaining(vec, i) ==
    LET u == Unit(vec, i)
        after == update_fill(u.cur, u.fill)
    IN
    /\ u.pc = "mid"
    /\ order_map' = [order_map EXCEPT
                        ![u.key].remaining_quantity = after.remaining_quantity,
                        ![u.key].status = after.status]
    /\ tasks' = [tasks EXCEPT ![vec][i].pc = "filled"]
    /\ UNCHANGED <<shard_lock, calls>>

InitHft ==
    /\ order_map = EmptyMap
    /\ shard_lock = NoLocks
    /\ pc = "join_init"
    /\ idx = 0
    /\ batch = 0
    /\ tasks = [init_tasks |-> UnitsOf(HftOrders), update_tasks |-> <<>>]
    /\ workload = <<>>
    /\ outcome = EmptyMap
    /\ calls = NoCalls
    /\ last = NoCall
    /\ fill_log = <<>>
    /\ FlattenIdle
    /\ PlotterIdle

hftFrame ==
    <<idx, batch, workload, outcome, last, fill_log, flattenVars, plotterVars>>

\* a unit of init_tasks, lines 445-449
HftInitTask ==
    /\ pc = "join_init"
    /\ \E i \in DOMAIN tasks.init_tasks, q \in 1..WorkQty :
          UnitInsert("init_tasks", i,
                     NewOrder(i, "STOCK_" \o ToString(i % 100),
                              "CLIENT_" \o ToString(i % 50), q),
                     "done")
    /\ UNCHANGED <<pc, hftFrame>>

\* join_all(init_tasks).await returns, lines 454-471: update_tasks is collected
HftJoinInit ==
    /\ pc = "join_init"
    /\ Joined("init_tasks")
    /\ tasks' = [tasks EXCEPT !.update_tasks =
                    [j \in 0..(HftUpdates - 1) |-> NewUnit("")]]
    /\ pc' = "join_update"
    /\ UNCHANGED <<order_map, shard_lock, calls, hftFrame>>

\* an update unit looking up its key with no lock taken
HftGetMutUnlocked ==
    /\ pc = "join_update"
    /\ \E j \in DOMAIN tasks.update_tasks, k \in 0..(HftOrders - 1) :
          UnitGetMutUnlocked("update_tasks", j, "pending", OrderKey(k))
    /\ UNCHANGED <<pc, hftFrame>>

\* an update unit, lines 462-463: the key is drawn, get_mut takes the guard
HftGetMut ==
    /\ pc = "join_update"
    /\ \E j \in DOMAIN tasks.update_tasks, k \in 0..(HftOrders - 1) :
          UnitGetMut("update_tasks", j, "pending", OrderKey(k))
    /\ UNCHANGED <<pc, hftFrame>>

\* an update unit, lines 464-466 up to the first store of update_fill
HftStoreFilled ==
    /\ pc = "join_update"
    /\ \E j \in DOMAIN tasks.update_tasks, f \in 0..WorkQty :
          UnitStoreFilled("update_tasks", j, f)
    /\ UNCHANGED <<pc, hftFrame>>

\* an update unit, the rest of update_fill
HftStoreRemaining ==
    /\ pc = "join_update"
    /\ \E j \in DOMAIN tasks.update_tasks : UnitStoreRemaining("update_tasks", j)
    /\ UNCHANGED <<pc, hftFrame>>

\* an update unit, line 468: the guard is dropped
HftDrop ==
    /\ pc = "join_update"
    /\ \E j \in DOMAIN tasks.update_tasks : UnitDrop("update_tasks", j)
    /\ UNCHANGED <<pc, hftFrame>>

\* join_all(update_tasks).await returns, line 473
HftJoinUpdate ==
    /\ pc = "join_update"
    /\ Joined("update_tasks")
    /\ pc' = "done"
    /\ UNCHANGED <<order_map, shard_lock, tasks, calls, hftFrame>>

NextHft ==
    \/ HftInitTask \/ HftJoinInit \/ HftGetMut \/ HftStoreFilled
    \/ HftStoreRemaining \/ HftDrop \/ HftJoinUpdate

SpecHft == InitHft /\ [][NextHft]_vars

\* the clamped fill a unit has applied to the order under key k
ClampedFillOf(u, k) ==
    IF u.key = k /\ u.pc \in {"mid", "filled", "done"} /\ u.found
    THEN Min(u.fill, u.cur.remaining_quantity)
    ELSE 0

RECURSIVE SumClampedFills(_, _)
SumClampedFills(k, n) ==
    IF n = 0 THEN 0
    ELSE ClampedFillOf(Unit("update_tasks", n - 1), k) + SumClampedFills(k, n - 1)

UnitsHolding == {"locked", "mid", "filled"}

\* C8: no update is lost when units race: every order's filled_quantity is the
\* sum of the clamped fills the units applied to it, remaining_quantity is
\* quantity - filled_quantity once no store is half done, and no unit sees an
\* order with filled_quantity + remaining_quantity different from quantity.
NoLostUpdate ==
    /\ \A k \in DOMAIN order_map :
          /\ order_map[k].filled_quantity
                = SumClampedFills(k, Cardinality(DOMAIN tasks.update_tasks))
          /\ (\A j \in DOMAIN tasks.update_tasks :
                  ~(Unit("update_tasks", j).pc = "mid"
                        /\ Unit("update_tasks", j).key = k))
                => order_map[k].remaining_quantity
                      = order_map[k].quantity - order_map[k].filled_quantity
    /\ \A j \in DOMAIN tasks.update_tasks :
          Unit("update_tasks", j).pc \in UnitsHolding
              => Unit("update_tasks", j).cur.filled_quantity
                    + Unit("update_tasks", j).cur.remaining_quantity
                 = Unit("update_tasks", j).cur.quantity

\* two units have filled the same order, one after the other
TwoUnitsFilledOneOrder ==
    /\ pc = "done"
    /\ \E i, j \in DOMAIN tasks.update_tasks :
          /\ i # j
          /\ Unit("update_tasks", i).key = Unit("update_tasks", j).key
          /\ Unit("update_tasks", i).fill > 0
          /\ Unit("update_tasks", j).fill > 0

\* ------------------------------------------------ sustained-load strategies
\* sync_trillion_transactions and async_trillion_transactions, lines 264-325.
\* workload holds batch_size and batches; pc starts in the one or the other
\* function.
TrillionWorkloads ==
    { w \in [batch_size : 1..MaxBatchSize, batches : 1..MaxBatches] :
        w.batch_size * w.batches <= MaxTransactions }

\* retain keeping the Filled orders and evicting the others
MapRetainFilled(m) ==
    [k \in {x \in DOMAIN m : m[x].status = "Filled"} |-> m[k]]

\* order_map.retain(|_, order| order.status != OrderStatus::Filled)
MapRetain(m) ==
    [k \in {x \in DOMAIN m : m[x].status # "Filled"} |-> m[k]]

InitTrillion ==
    /\ workload \in TrillionWorkloads
    /\ order_map = EmptyMap
    /\ shard_lock = NoLocks
    /\ pc \in {"sync_insert", "async_spawn"}
    /\ idx = 0
    /\ batch = 0
    /\ tasks = [batch_tasks |-> <<>>]
    /\ outcome = EmptyMap
    /\ calls = NoCalls
    /\ last = NoCall
    /\ fill_log = <<>>
    /\ FlattenIdle
    /\ PlotterIdle

trillionFrame == <<workload, outcome, fill_log, flattenVars, plotterVars>>

\* Order::new((batch * batch_size + i) as u64, symbol, client_id)
BatchOrder(b, i, q) ==
    NewOrder(b * workload.batch_size + i, SymbolOf(i), ClientOf(i), q)

\* the sweep run at the end of every batch
CleanupEveryBatch(next) ==
    /\ \A s \in DOMAIN shard_lock : shard_lock[s] = NoUnit
    /\ order_map' = MapRetain(order_map)
    /\ calls' = [calls EXCEPT !.retain = @ + 1]
    /\ last' = [op |-> "retain", key |-> "", qty |-> batch,
                before |-> order_map]
    /\ pc' = next

\* if batch % 1000 == 0 { order_map.retain(..) }: the sweep of a DashMap takes
\* the write lock of every shard
Cleanup(next) ==
    /\ \A s \in DOMAIN shard_lock : shard_lock[s] = NoUnit
    /\ IF batch % CleanupEvery = 0
       THEN /\ order_map' = MapRetain(order_map)
            /\ calls' = [calls EXCEPT !.retain = @ + 1]
            /\ last' = [op |-> "retain", key |-> "", qty |-> batch,
                        before |-> order_map]
       ELSE UNCHANGED <<order_map, calls, last>>
    /\ pc' = next

\* for batch in 0..batches: the next batch begins, or the function returns
NextBatch(first) ==
    IF batch + 1 < workload.batches
    THEN batch' = batch + 1 /\ pc' = first
    ELSE batch' = batch /\ pc' = "done"

\* sync_trillion_transactions, lines 270-274
SyncBatchInsert ==
    /\ pc = "sync_insert"
    /\ shard_lock[Shard(BatchKey(batch, idx))] = NoUnit
    /\ \E q \in 1..WorkQty :
          order_map' = MapInsert(order_map, BatchKey(batch, idx),
                                 BatchOrder(batch, idx, q))
    /\ calls' = Called("create", BatchKey(batch, idx))
    /\ pc' = "sync_fill"
    /\ UNCHANGED <<shard_lock, idx, batch, tasks, last, trillionFrame>>

\* sync_trillion_transactions, lines 277-282, and the step of for i
SyncBatchFill ==
    /\ pc = "sync_fill"
    /\ shard_lock[Shard(BatchKey(batch, idx))] = NoUnit
    /\ LET key == BatchKey(batch, idx) IN
       IF key \in DOMAIN order_map /\ order_map[key].remaining_quantity > 0
       THEN \E f \in 1..order_map[key].remaining_quantity :
                order_map' = MapUpdateFill(order_map, key, f)
       ELSE UNCHANGED order_map
    /\ calls' = Called("fill", BatchKey(batch, idx))
    /\ IF idx + 1 < workload.batch_size
       THEN pc' = "sync_insert" /\ idx' = idx + 1
       ELSE pc' = "sync_cleanup" /\ idx' = 0
    /\ UNCHANGED <<shard_lock, batch, tasks, last, trillionFrame>>

\* sync_trillion_transactions, lines 286-288
SyncCleanup ==
    /\ pc = "sync_cleanup"
    /\ Cleanup("sync_swept")
    /\ UNCHANGED <<shard_lock, idx, batch, tasks, trillionFrame>>

\* sync_trillion_transactions, line 268
SyncNextBatch ==
    /\ pc = "sync_swept"
    /\ NextBatch("sync_insert")
    /\ UNCHANGED <<order_map, shard_lock, idx, tasks, calls, last,
                   trillionFrame>>

\* async_trillion_transactions, lines 296-318: batch_tasks is collected and
\* handed to join_all
BatchSpawn ==
    /\ pc = "async_spawn"
    /\ tasks' = [tasks EXCEPT !.batch_tasks =
                    [i \in 0..(workload.batch_size - 1) |->
                        NewUnit(BatchKey(batch, i))]]
    /\ pc' = "async_join"
    /\ UNCHANGED <<order_map, shard_lock, idx, batch, calls, last,
                   trillionFrame>>

\* a unit of batch_tasks, lines 300-304
BatchTaskInsert ==
    /\ pc = "async_join"
    /\ \E i \in DOMAIN tasks.batch_tasks, q \in 1..WorkQty :
          UnitInsert("batch_tasks", i, BatchOrder(batch, i, q), "inserted")
    /\ UNCHANGED <<pc, idx, batch, last, trillionFrame>>

\* a unit of batch_tasks, line 307
BatchTaskGetMut ==
    /\ pc = "async_join"
    /\ \E i \in DOMAIN tasks.batch_tasks :
          UnitGetMut("batch_tasks", i, "inserted", BatchKey(batch, i))
    /\ UNCHANGED <<pc, idx, batch, last, trillionFrame>>

\* a unit of batch_tasks, lines 308-312
BatchTaskFill ==
    /\ pc = "async_join"
    /\ \E i \in DOMAIN tasks.batch_tasks, f \in 0..WorkQty :
          UnitFill("batch_tasks", i, f)
    /\ UNCHANGED <<pc, idx, batch, last, trillionFrame>>

\* a unit of batch_tasks, line 313
BatchTaskDrop ==
    /\ pc = "async_join"
    /\ \E i \in DOMAIN tasks.batch_tasks : UnitDrop("batch_tasks", i)
    /\ UNCHANGED <<pc, idx, batch, last, trillionFrame>>

\* join_all(batch_tasks) returning with units still pending or in flight
BatchJoinEarly ==
    /\ pc = "async_join"
    /\ pc' = "async_cleanup"
    /\ UNCHANGED <<order_map, shard_lock, idx, batch, tasks, calls, last,
                   trillionFrame>>

\* join_all(batch_tasks).await returns, line 318
BatchJoin ==
    /\ pc = "async_join"
    /\ Joined("batch_tasks")
    /\ pc' = "async_cleanup"
    /\ UNCHANGED <<order_map, shard_lock, idx, batch, tasks, calls, last,
                   trillionFrame>>

\* async_trillion_transactions, lines 321-323
AsyncCleanup ==
    /\ pc = "async_cleanup"
    /\ Cleanup("async_swept")
    /\ UNCHANGED <<shard_lock, idx, batch, tasks, trillionFrame>>

\* async_trillion_transactions, line 295
AsyncNextBatch ==
    /\ pc = "async_swept"
    /\ NextBatch("async_spawn")
    /\ UNCHANGED <<order_map, shard_lock, idx, tasks, calls, last,
                   trillionFrame>>

NextTrillion ==
    \/ SyncBatchInsert \/ SyncBatchFill \/ SyncCleanup \/ SyncNextBatch
    \/ BatchSpawn \/ BatchTaskInsert \/ BatchTaskGetMut \/ BatchTaskFill
    \/ BatchTaskDrop \/ BatchJoin \/ AsyncCleanup \/ AsyncNextBatch

SpecTrillion == InitTrillion /\ [][NextTrillion]_vars

\* the sweep of the current batch has just run
JustSwept ==
    /\ pc \in {"sync_swept", "async_swept"}
    /\ last.op = "retain"
    /\ last.qty = batch

\* C9: a cleanup sweep evicts exactly the Filled orders: right after it the
\* registry holds no Filled order, and every order that was there before with
\* another status is still there, unchanged.
SweepEvictsExactlyFilled ==
    JustSwept =>
        /\ \A k \in DOMAIN order_map : order_map[k].status # "Filled"
        /\ DOMAIN order_map \subseteq DOMAIN last.before
        /\ \A k \in DOMAIN last.before :
              last.before[k].status # "Filled"
                  => k \in DOMAIN order_map /\ order_map[k] = last.before[k]

\* a sweep has evicted one order and kept another
SweepEvictedAndKept ==
    /\ JustSwept
    /\ \E k \in DOMAIN last.before : last.before[k].status = "Filled"
    /\ \E k \in DOMAIN order_map : order_map[k].status = "PartiallyFilled"

\* the sweeps due before batch b: those of the batches b2 < b with
\* b2 % 1000 == 0
SweepsDueBefore(b) ==
    Cardinality({b2 \in 0..(b - 1) : b2 % CleanupEvery = 0})

UnitsInFlight == {"inserted", "locked", "filled"}

\* C10: in async_trillion_transactions the sweep is a barrier: it runs only
\* when every unit of its batch is done, units run only while join_all is
\* awaited, and the units of a batch start only after the sweeps of the
\* batches before it have run.
SweepIsBarrier ==
    /\ pc \in {"async_cleanup", "async_swept"} => Joined("batch_tasks")
    /\ \A i \in DOMAIN tasks.batch_tasks :
          LET u == Unit("batch_tasks", i) IN
          /\ u.pc \in UnitsInFlight => pc = "async_join"
          /\ (u.pc # "pending" /\ u.key = BatchKey(batch, i))
                => calls.retain >= SweepsDueBefore(batch)
          /\ u.pc # "pending" =>
                \E b \in 0..batch : u.key = BatchKey(b, i)

\* the second batch is under way after the sweep of the first: one unit in
\* flight, one not started
SecondBatchUnderWay ==
    /\ pc = "async_join"
    /\ batch = 1
    /\ calls.retain = 1
    /\ \E i, j \in DOMAIN tasks.batch_tasks :
          /\ Unit("batch_tasks", i).pc \in UnitsInFlight
          /\ Unit("batch_tasks", j).pc = "pending"

\* the batch indices the guard of the sweep is looked at for, beyond those
\* the runs of the model reach
SweepHorizon == 2500

\* the number of batches whose end, sweep or no sweep, has been passed
BatchesEnded ==
    IF pc \in {"sync_swept", "async_swept", "done"} THEN batch + 1 ELSE batch

\* the batch of the last sweep, -1 when there has been none
LastSweptBatch ==
    IF BatchesEnded = 0 THEN -1 ELSE ((BatchesEnded - 1) \div 1000) * 1000

TrialsInit == InitStrategies \/ InitTrillion

TrialsNext == NextStrategies \/ NextTrillion

SpecTrials == TrialsInit /\ [][TrialsNext]_vars /\ WF_vars(TrialsNext)

\* C23: every trial runs to completion: each of the three-phase strategies
\* and both sustained-load strategies returns, whatever the data_size, the
\* batch_size and the number of batches, with every lock of the registry
\* released; no unit waits for ever on a guard another unit or itself holds.
TrialsRunToCompletion ==
    <>[](pc = "done" /\ \A s \in DOMAIN shard_lock : shard_lock[s] = NoUnit)

\* a unit of update_tasks waits for the shard another unit holds the guard of
UnitWaitsForGuard ==
    /\ pc = "join_update"
    /\ \E i, j \in DOMAIN tasks.update_tasks :
          /\ i # j
          /\ Unit("update_tasks", i).pc = "locked"
          /\ Unit("update_tasks", j).pc = "pending"
          /\ shard_lock[Shard(OrderKey(j))] = <<"update_tasks", i>>

\* an order some fill has reached: at least 1 filled, no longer New
Touched(order) ==
    /\ order.filled_quantity >= 1
    /\ order.status \in {"PartiallyFilled", "Filled"}

\* the update phase of a three-phase strategy has completed
UpdatePhaseOver == pc \in {"sync_return", "concurrent_return", "async_return"}

\* the create-then-fill unit of the order under key has not completed: the
\* loop body of sync_trillion_transactions is between insert and fill, or the
\* unit of batch_tasks has inserted and not yet filled
UnitUnderWay(key) ==
    \/ pc = "sync_fill" /\ key = BatchKey(batch, idx)
    \/ /\ pc = "async_join"
       /\ \E i \in DOMAIN tasks.batch_tasks :
             /\ Unit("batch_tasks", i).key = key
             /\ Unit("batch_tasks", i).pc \in {"inserted", "locked"}

\* C27: after the update phase of each of the three strategies no order of
\* the registry is still New: the registry holds the data_size orders of the
\* workload, each with filled_quantity >= 1 and status PartiallyFilled or
\* Filled, and so do the results the strategy returns with; in the
\* sustained-load strategies every order of the registry has filled_quantity
\* >= 1 and is no longer New once its create-then-fill unit has completed.
NoOrderLeftNew ==
    /\ UpdatePhaseOver =>
          /\ DOMAIN order_map = WorkloadKeys
          /\ \A k \in DOMAIN order_map : Touched(order_map[k])
    /\ \A strategy \in DOMAIN outcome :
          \A k \in DOMAIN outcome[strategy].fills :
              /\ outcome[strategy].fills[k][1] >= 1
              /\ outcome[strategy].fills[k][3] \in {"PartiallyFilled", "Filled"}
    /\ "batch_size" \in DOMAIN workload =>
          \A k \in DOMAIN order_map :
              ~UnitUnderWay(k) => Touched(order_map[k])

\* the units of update_tasks have all run on a workload of the largest size
\* that holds an order of quantity 1, now Filled, and one now PartiallyFilled
AllOrdersTouchedByUnits ==
    /\ pc = "async_return"
    /\ workload.data_size = MaxDataSize
    /\ \E k \in DOMAIN order_map :
          order_map[k].quantity = 1 /\ order_map[k].status = "Filled"
    /\ \E k \in DOMAIN order_map : order_map[k].status = "PartiallyFilled"

\* ------------------------------------------------------------ order flatten
\* format!("EXCHANGE_{}", i)
ExchangeKey(i) == "EXCHANGE_" \o ToString(i)

\* format!("ORD_{}_{}", i, j)
NestedKey(i, j) == "ORD_" \o ToString(i) \o "_" \o ToString(j)

\* a flat key that leaves the order key out
FlatKeyExchangeOnly(exchange, order_id) == exchange \o ":"

\* format!("{}:{}", exchange, order_id)
FlatKey(exchange, order_id) == exchange \o ":" \o order_id

\* the inner loop of create_nested_order_data: orders 0..(n - 1) of exchange i
RECURSIVE ExchangeOrders(_, _, _, _)
ExchangeOrders(i, n, orders_per_exchange, quantity) ==
    IF n = 0 THEN EmptyMap
    ELSE LET j == n - 1 IN
         MapInsert(ExchangeOrders(i, j, orders_per_exchange, quantity),
                   NestedKey(i, j),
                   NewOrder(i * orders_per_exchange + j,
                            "STOCK_" \o ToString(j % 100),
                            "CLIENT_" \o ToString(j % 50),
                            quantity))

\* the outer loop: exchanges 0..(n - 1)
RECURSIVE NestedOrders(_, _, _)
NestedOrders(n, orders_per_exchange, quantity) ==
    IF n = 0 THEN EmptyMap
    ELSE MapInsert(NestedOrders(n - 1, orders_per_exchange, quantity),
                   ExchangeKey(n - 1),
                   ExchangeOrders(n - 1, orders_per_exchange,
                                  orders_per_exchange, quantity))

\* create_nested_order_data(exchanges, orders_per_exchange); every Order::new
\* draws the quantity the random source yields, here one value for all
create_nested_order_data(exchanges, orders_per_exchange, quantity) ==
    NestedOrders(exchanges, orders_per_exchange, quantity)

\* flattened.extend(result): the entries of result replace those of equal key
MapExtend(m, result) ==
    [k \in DOMAIN m \cup DOMAIN result |->
        IF k \in DOMAIN result THEN result[k] ELSE m[k]]

\* the iterators of the nested for loops of sync_order_flatten: the exchange
\* being visited, the exchanges and the orders of it still to visit
NoIter == [exchange |-> "", left |-> {}, orders_left |-> {}]

\* one per-exchange task of async_order_flatten with its clones (lines 219-220)
FlattenUnit(exchange) ==
    [pc |-> "pending", exchange |-> exchange,
     orders |-> nested_orders[exchange],
     orders_left |-> DOMAIN nested_orders[exchange],
     local_flattened |-> EmptyMap]

\* the orders a HashMap iterator may yield its entries in
Orderings(S) ==
    {p \in [1..Cardinality(S) -> S] : \A a, b \in DOMAIN p : p[a] = p[b] => a = b}

\* bench_order_flattening: nested data of any size, flattened by
\* sync_order_flatten and then by async_order_flatten
InitFlatten ==
    /\ workload \in [exchanges : 1..MaxExchanges,
                     orders_per_exchange : 1..MaxOrdersPerExchange,
                     quantity : 1..WorkQty]
    /\ nested_orders = create_nested_order_data(workload.exchanges,
                            workload.orders_per_exchange, workload.quantity)
    /\ flattened = EmptyMap
    /\ pc = "sync_flatten"
    /\ idx = [NoIter EXCEPT !.left = DOMAIN nested_orders]
    /\ tasks = [flatten_tasks |-> <<>>]
    /\ outcome = EmptyMap
    /\ order_map = EmptyMap
    /\ shard_lock = NoLocks
    /\ batch = 0
    /\ calls = NoCalls
    /\ last = NoCall
    /\ fill_log = <<>>
    /\ PlotterIdle

flattenFrame ==
    <<order_map, shard_lock, batch, workload, calls, last, fill_log,
      nested_orders, plotterVars>>

\* for (exchange, orders) in nested_orders: the next exchange, in the order
\* the HashMap yields them
SyncFlattenExchange ==
    /\ pc = "sync_flatten"
    /\ idx.orders_left = {}
    /\ \E exchange \in idx.left :
          idx' = [exchange |-> exchange,
                  left |-> idx.left \ {exchange},
                  orders_left |-> DOMAIN nested_orders[exchange]]
    /\ UNCHANGED <<pc, flattened, tasks, outcome, flattenFrame>>

\* for (order_id, order) in orders: flattened.insert(flat_key, order.clone())
SyncFlattenOrder ==
    /\ pc = "sync_flatten"
    /\ \E order_id \in idx.orders_left :
          /\ flattened' = MapInsert(flattened, FlatKey(idx.exchange, order_id),
                                    nested_orders[idx.exchange][order_id])
          /\ idx' = [idx EXCEPT !.orders_left = @ \ {order_id}]
    /\ UNCHANGED <<pc, tasks, outcome, flattenFrame>>

\* sync_order_flatten returns flattened
SyncFlattenReturn ==
    /\ pc = "sync_flatten"
    /\ idx.left = {} /\ idx.orders_left = {}
    /\ outcome' = MapInsert(outcome, "sync", flattened)
    /\ flattened' = EmptyMap
    /\ idx' = NoIter
    /\ pc' = "async_spawn"
    /\ UNCHANGED <<tasks, flattenFrame>>

\* lines 216-230: one task per exchange, collected in the order the HashMap
\* yields the exchanges
AsyncFlattenSpawn ==
    /\ pc = "async_spawn"
    /\ \E p \in Orderings(DOMAIN nested_orders) :
          tasks' = [flatten_tasks |-> [i \in DOMAIN p |-> FlattenUnit(p[i])]]
    /\ pc' = "async_join"
    /\ UNCHANGED <<idx, flattened, outcome, flattenFrame>>

\* lines 223-226 of one task: one more entry of its local_flattened
FlattenTask ==
    /\ pc = "async_join"
    /\ \E i \in DOMAIN tasks.flatten_tasks :
        LET u == Unit("flatten_tasks", i) IN
        \E order_id \in u.orders_left :
          tasks' = [tasks EXCEPT !.flatten_tasks[i] =
              [u EXCEPT !.local_flattened =
                            MapInsert(@, FlatKey(u.exchange, order_id),
                                      u.orders[order_id]),
                        !.orders_left = @ \ {order_id},
                        !.pc = IF u.orders_left = {order_id}
                               THEN "done" ELSE "running"]]
    /\ UNCHANGED <<pc, idx, flattened, outcome, flattenFrame>>

\* join_all(tasks).await returns once every task has returned its map
AsyncFlattenJoin ==
    /\ pc = "async_join"
    /\ Joined("flatten_tasks")
    /\ pc' = "async_merge"
    /\ idx' = [NoIter EXCEPT !.left = DOMAIN tasks.flatten_tasks]
    /\ UNCHANGED <<flattened, tasks, outcome, flattenFrame>>

\* for result in results { flattened.extend(result) }: results come in the
\* order of the tasks
AsyncFlattenExtend ==
    /\ pc = "async_merge"
    /\ idx.left # {}
    /\ LET i == CHOOSE j \in idx.left : \A k \in idx.left : j <= k IN
       /\ flattened' = MapExtend(flattened, Unit("flatten_tasks", i).local_flattened)
       /\ idx' = [idx EXCEPT !.left = @ \ {i}]
    /\ UNCHANGED <<pc, tasks, outcome, flattenFrame>>

\* async_order_flatten returns flattened
AsyncFlattenReturn ==
    /\ pc = "async_merge"
    /\ idx.left = {}
    /\ outcome' = MapInsert(outcome, "async", flattened)
    /\ flattened' = EmptyMap
    /\ idx' = NoIter
    /\ pc' = "done"
    /\ UNCHANGED <<tasks, flattenFrame>>

NextFlatten ==
    \/ SyncFlattenExchange \/ SyncFlattenOrder \/ SyncFlattenReturn
    \/ AsyncFlattenSpawn \/ FlattenTask \/ AsyncFlattenJoin
    \/ AsyncFlattenExtend \/ AsyncFlattenReturn

SpecFlatten == InitFlatten /\ [][NextFlatten]_vars

\* the entries a flattened map must hold: one per exchange and order key
FlatEntries ==
    UNION {{<<e, k>> : k \in DOMAIN nested_orders[e]} : e \in DOMAIN nested_orders}

\* C11: either flatten function returns exactly exchanges * orders_per_exchange
\* entries, one per stored order under the key "{exchange}:{order_key}" and
\* holding that order; the two functions return the same map, in whatever
\* order the tasks finish and are merged; the nested input stays as built.
FlattenIsExact ==
    /\ Cardinality(DOMAIN nested_orders) = workload.exchanges
    /\ \A e \in DOMAIN nested_orders :
          Cardinality(DOMAIN nested_orders[e]) = workload.orders_per_exchange
    /\ nested_orders = create_nested_order_data(workload.exchanges,
                            workload.orders_per_exchange, workload.quantity)
    /\ \A f \in DOMAIN outcome :
          /\ Cardinality(DOMAIN outcome[f]) =
                workload.exchanges * workload.orders_per_exchange
          /\ DOMAIN outcome[f] = {ek[1] \o ":" \o ek[2] : ek \in FlatEntries}
          /\ \A ek \in FlatEntries :
                outcome[f][ek[1] \o ":" \o ek[2]] = nested_orders[ek[1]][ek[2]]
    /\ DOMAIN outcome = {"sync", "async"} => outcome["sync"] = outcome["async"]

\* both functions have returned for two exchanges of two orders, the task of
\* the second exchange merged first
BothFlattened ==
    /\ pc = "done"
    /\ DOMAIN outcome = {"sync", "async"}
    /\ workload.exchanges = 2 /\ workload.orders_per_exchange = 2
    /\ Unit("flatten_tasks", 1).exchange = ExchangeKey(1)

\* ----------------------------------------------------------------- text
\* A text is a sequence of pieces: single characters where the code looks at
\* characters (digits, signs, ".", ",", "/"), longer pieces elsewhere.
Digits == <<"0", "1", "2", "3", "4", "5", "6", "7", "8", "9">>

IsDigit(c) == \E i \in DOMAIN Digits : Digits[i] = c

DigitValue(c) == (CHOOSE i \in DOMAIN Digits : Digits[i] = c) - 1

\* the text of a segment as one String
RECURSIVE Render(_)
Render(seg) == IF seg = <<>> THEN "" ELSE seg[1] \o Render(Tail(seg))

Abs(n) == IF n < 0 THEN -n ELSE n

\* the pieces of a String of the model: the one name with a comma in it is
\* split at the comma, every other String is one piece
Pieces(str) == IF str = "bench,v2" THEN <<"bench", ",", "v2">> ELSE <<str>>

\* Display of an unsigned integer: its decimal digits
RECURSIVE FormatUsize(_)
FormatUsize(n) ==
    IF n < 10 THEN <<Digits[n + 1]>>
    ELSE FormatUsize(n \div 10) \o <<Digits[(n % 10) + 1]>>

\* digits of the fraction rem/den, at most places of them
FractionPlaces == 6

RECURSIVE FormatFraction(_, _, _)
FormatFraction(rem, den, places) ==
    IF rem = 0 \/ places = 0 THEN <<>>
    ELSE <<Digits[((rem * 10) \div den) + 1]>>
         \o FormatFraction((rem * 10) % den, den, places - 1)

\* Display of an f64: "inf", "-inf" and "NaN" for the values of a division
\* by zero; else a sign, the integer digits and, when there is a fraction,
\* "." and its digits.  No exponent, no separator of thousands.  The digits
\* past FractionPlaces, which the shortest round-trip text of a real f64 may
\* hold, are cut.
FormatF64(a) ==
    IF a.den = 0
    THEN IF a.num > 0 THEN <<"inf">> ELSE IF a.num < 0 THEN <<"-inf">> ELSE <<"NaN">>
    ELSE LET n == Abs(a.num)
             fraction == FormatFraction(n % a.den, a.den, FractionPlaces)
         IN  (IF a.num < 0 THEN <<"-">> ELSE <<>>)
             \o FormatUsize(n \div a.den)
             \o (IF fraction = <<>> THEN <<>> ELSE <<".">> \o fraction)

\* ------------------------------------------------- plotter: numbers, records
\* The f64 values of the plotter are modelled as exact fractions num/den in
\* lowest terms with den >= 0; den = 0 stands for what a division by zero
\* yields (1/0 and -1/0 the infinities, 0/0 NaN).  time_ns values are whole
\* numbers of nanoseconds.  Rounding of f64 arithmetic is not modelled.
RECURSIVE GCD(_, _)
GCD(a, b) == IF b = 0 THEN a ELSE GCD(b, a % b)

Rat(n, d) ==
    IF d = 0
    THEN [num |-> IF n > 0 THEN 1 ELSE IF n < 0 THEN -1 ELSE 0, den |-> 0]
    ELSE LET g == GCD(Abs(n), Abs(d))
             sgn == IF d < 0 THEN -1 ELSE 1
         IN  [num |-> sgn * (n \div g), den |-> sgn * (d \div g)]

Whole(n) == Rat(n, 1)

\* a / b
RatDiv(a, b) ==
    LET g1 == GCD(Abs(a.num), Abs(b.num))
        g2 == GCD(a.den, b.den)
        n1 == IF g1 = 0 THEN a.num ELSE a.num \div g1
        n2 == IF g1 = 0 THEN b.num ELSE b.num \div g1
        d1 == IF g2 = 0 THEN a.den ELSE a.den \div g2
        d2 == IF g2 = 0 THEN b.den ELSE b.den \div g2
    IN  Rat(n1 * d2, d1 * n2)

\* a * b
RatMul(a, b) == RatDiv(a, Rat(b.den, b.num))

\* a < b on finite values; every comparison with NaN is false
RatLess(a, b) ==
    IF a.den = 0 \/ b.den = 0
    THEN /\ ~(a.num = 0 /\ a.den = 0) /\ ~(b.num = 0 /\ b.den = 0)
         /\ (IF a.den = 0 THEN a.num ELSE 0) < (IF b.den = 0 THEN b.num ELSE 0)
    ELSE a.num * b.den < b.num * a.den

\* x as usize of a non-negative finite value: truncation
Trunc(a) == a.num \div a.den

\* BenchmarkResult::new(name, operation_type, data_size, time_ns)
NewBenchmarkResult(name, operation_type, data_size, time_ns) ==
    [ name |-> name,
      operation_type |-> operation_type,
      data_size |-> data_size,
      time_ns |-> Whole(time_ns),
      time_us |-> RatDiv(Whole(time_ns), Whole(1000)),
      time_ms |-> RatDiv(Whole(time_ns), Whole(1000000)),
      throughput_ops_per_sec |->
          RatDiv(Whole(data_size), RatDiv(Whole(time_ns), Whole(1000000000))) ]

\* the sample_data vector of add_sample_results (lines 53-57)
sample_data ==
    << [name |-> "sync_order_operations/single_threaded",
        op_type |-> "Sync Single",
        data_points |-> << <<100, 46500>>, <<1000, 557000>>, <<10000, 5870000>> >>],
       [name |-> "sync_order_operations/concurrent",
        op_type |-> "Sync Concurrent",
        data_points |-> << <<100, 61700>>, <<1000, 580000>>, <<10000, 6000000>> >>],
       [name |-> "async_order_operations/async",
        op_type |-> "Async",
        data_points |-> << <<100, 105000>>, <<1000, 1100000>>, <<10000, 11000000>> >>] >>

\* the results the nested loops of add_sample_results push, in their order
RECURSIVE SampleResultsFrom(_, _)
SampleResultsFrom(g, p) ==
    IF g > Len(sample_data) THEN <<>>
    ELSE IF p > Len(sample_data[g].data_points) THEN SampleResultsFrom(g + 1, 1)
    ELSE <<NewBenchmarkResult(sample_data[g].name, sample_data[g].op_type,
                              sample_data[g].data_points[p][1],
                              sample_data[g].data_points[p][2])>>
         \o SampleResultsFrom(g, p + 1)

SampleResults == SampleResultsFrom(1, 1)

\* String::cmp on the operation types the plotter is given: byte order
OperationTypeOrder == <<"Async", "Sync Concurrent", "Sync Single">>

StrRank(str) == CHOOSE i \in DOMAIN OperationTypeOrder : OperationTypeOrder[i] = str

\* Ordering of two sort keys, tuples of numbers of one length: the first
\* component decides, then the next (Ordering::then)
KeyLess(a, b) ==
    \E n \in DOMAIN a :
        /\ a[n] < b[n]
        /\ \A m \in 1..(n - 1) : a[m] = b[m]

\* slice::sort_by: stable, elements of equal key keep their order; keys[i]
\* is the key the comparator looks at in seq[i]
StableSort(seq, keys) ==
    LET pos(i) == 1 + Cardinality({j \in DOMAIN seq :
                        \/ KeyLess(keys[j], keys[i])
                        \/ (~KeyLess(keys[i], keys[j]) /\ j < i)})
    IN  [k \in DOMAIN seq |-> seq[CHOOSE i \in DOMAIN seq : pos(i) = k]]

\* |a, b| a.data_size.cmp(&b.data_size)
BySize(rs) == [i \in DOMAIN rs |-> <<rs[i].data_size>>]

\* |a, b| a.operation_type.cmp(&b.operation_type).then(a.data_size.cmp(&b.data_size))
ByTypeThenSize(rs) ==
    [i \in DOMAIN rs |-> <<StrRank(rs[i].operation_type), rs[i].data_size>>]

\* grouped: operation_type -> the results of that type, in the order of rs
Grouped(rs) ==
    [op \in {rs[i].operation_type : i \in DOMAIN rs} |->
        SelectSeq(rs, LAMBDA r : r.operation_type = op)]

\* f64::max
RatMax(a, b) == IF RatLess(a, b) THEN b ELSE a

\* results.iter().map(|r| r.time_us).fold(0.0, f64::max)
RECURSIVE MaxTimeUs(_)
MaxTimeUs(rs) ==
    IF rs = <<>> THEN Whole(0)
    ELSE RatMax(MaxTimeUs(SubSeq(rs, 1, Len(rs) - 1)), rs[Len(rs)].time_us)

\* result.time_ns / result.data_size as f64
PerOrderNs(result) == RatDiv(result.time_ns, Whole(result.data_size))

\* ------------------------------------------- plotter: what the reports derive
\* print_ascii_chart: per group, sorted by size, the bars of lines 94-104,
\* and the scale of line 108
AsciiChart(rs) ==
    [op |-> "print_ascii_chart",
     bars |-> [g \in DOMAIN Grouped(rs) |->
        LET sorted == StableSort(Grouped(rs)[g], BySize(Grouped(rs)[g]))
            scale == RatDiv(Whole(40), MaxTimeUs(sorted))
        IN  [i \in DOMAIN sorted |->
                [data_size |-> sorted[i].data_size,
                 bar_length |-> Trunc(RatMul(sorted[i].time_us, scale)),
                 time_us |-> sorted[i].time_us,
                 per_order_ns |-> PerOrderNs(sorted[i])]]],
     scale |-> RatDiv(Whole(40), RatDiv(MaxTimeUs(rs), Whole(40)))]

\* the rows of print_comparison_table: the results sorted on a clone by
\* operation type, then size (lines 120-139)
ComparisonRows(rs) ==
    LET sorted_results == StableSort(rs, ByTypeThenSize(rs)) IN
    [i \in DOMAIN sorted_results |->
        LET result == sorted_results[i] IN
        [operation_type |-> result.operation_type,
         data_size |-> result.data_size,
         time_us |-> result.time_us,
         per_order_ns |-> PerOrderNs(result),
         throughput_mops |->
             RatDiv(result.throughput_ops_per_sec, Whole(1000000)),
         efficiency_score |-> RatDiv(Whole(1000), PerOrderNs(result))]]

\* the match of lines 175-180 with the ratings of its second and third arms
\* exchanged
RatingSwapped(f) ==
    IF RatLess(f, Rat(12, 10)) THEN "Excellent (Sub-linear)"
    ELSE IF RatLess(f, Rat(15, 10)) THEN "Fair (Super-linear)"
    ELSE IF RatLess(f, Whole(2)) THEN "Good (Near-linear)"
    ELSE "Poor (Exponential)"

\* the match of lines 175-180
Rating(f) ==
    IF RatLess(f, Rat(12, 10)) THEN "Excellent (Sub-linear)"
    ELSE IF RatLess(f, Rat(15, 10)) THEN "Good (Near-linear)"
    ELSE IF RatLess(f, Whole(2)) THEN "Fair (Super-linear)"
    ELSE "Poor (Exponential)"

\* lines 162-180 taking results[1] (0-based) for last, not results[len - 1]
GroupScalabilitySecond(sorted) ==
    LET first == sorted[1]
        last_result == sorted[2]
        size_ratio == RatDiv(Whole(last_result.data_size), Whole(first.data_size))
        time_ratio == RatDiv(last_result.time_us, first.time_us)
        scalability_factor == RatDiv(time_ratio, size_ratio)
    IN  [first |-> first,
         last |-> last_result,
         size_ratio |-> size_ratio,
         time_ratio |-> time_ratio,
         scalability_factor |-> scalability_factor,
         scalability_rating |-> Rating(scalability_factor)]

\* lines 162-180 on the results of one group, sorted by size
GroupScalability(sorted) ==
    LET first == sorted[1]
        last_result == sorted[Len(sorted)]
        size_ratio == RatDiv(Whole(last_result.data_size), Whole(first.data_size))
        time_ratio == RatDiv(last_result.time_us, first.time_us)
        scalability_factor == RatDiv(time_ratio, size_ratio)
    IN  [first |-> first,
         last |-> last_result,
         size_ratio |-> size_ratio,
         time_ratio |-> time_ratio,
         scalability_factor |-> scalability_factor,
         scalability_rating |-> Rating(scalability_factor)]

\* print_scalability_analysis: what it prints for the groups it rates
\* (lines 148-184); the HashMap yields the groups in any order
ScalabilityAnalysis(rs) ==
    LET grouped == Grouped(rs) IN
    [g \in {op \in DOMAIN grouped : Len(grouped[op]) >= 2} |->
        GroupScalability(StableSort(grouped[g], BySize(grouped[g])))]

\* the values of the data lines of export_csv, in the order of the results
\* (lines 194-207); the timestamp column is the clock's
CsvRows(rs) ==
    [i \in DOMAIN rs |->
        [name |-> rs[i].name,
         operation_type |-> rs[i].operation_type,
         data_size |-> rs[i].data_size,
         time_ns |-> rs[i].time_ns,
         time_us |-> rs[i].time_us,
         time_ms |-> rs[i].time_ms,
         throughput_ops_per_sec |-> rs[i].throughput_ops_per_sec,
         per_order_ns |-> PerOrderNs(rs[i])]]

\* the header line of export_csv (line 191)
CsvHeader ==
    <<"timestamp", ",", "name", ",", "operation_type", ",", "data_size", ",",
      "time_ns", ",", "time_us", ",", "time_ms", ",",
      "throughput_ops_per_sec", ",", "per_order_ns">>

\* timestamp.format("%Y-%m-%d %H:%M:%S") (line 197): the clock's, digits
\* with "-", " " and ":" between them
Timestamp == <<"%Y-%m-%d %H:%M:%S">>

\* the texts of the fields with "," between them, as the format string
\* "{},{},{},{},{},{},{},{},{}" of line 196 puts them
RECURSIVE CommaJoin(_)
CommaJoin(fields) ==
    IF Len(fields) = 1 THEN fields[1]
    ELSE fields[1] \o <<",">> \o CommaJoin(Tail(fields))

\* the line writeln! of lines 196-206 writes for a result: Display of each
\* field, nothing quoted or escaped
CsvLine(row) ==
    CommaJoin(<<Timestamp,
                Pieces(row.name),
                Pieces(row.operation_type),
                FormatUsize(row.data_size),
                FormatF64(row.time_ns),
                FormatF64(row.time_us),
                FormatF64(row.time_ms),
                FormatF64(row.throughput_ops_per_sec),
                FormatF64(row.per_order_ns)>>)

\* the lines of the file export_csv writes (lines 191-207): the header, then
\* a line per result in the order of the results
CsvLines(rs) ==
    <<CsvHeader>> \o [i \in DOMAIN rs |-> CsvLine(CsvRows(rs)[i])]

\* the table rows of generate_markdown_report (lines 233-250)
MarkdownRows(rs) ==
    LET sorted_results == StableSort(rs, ByTypeThenSize(rs)) IN
    [i \in DOMAIN sorted_results |->
        LET result == sorted_results[i] IN
        [operation_type |-> result.operation_type,
         data_size |-> result.data_size,
         time_us |-> result.time_us,
         per_order_ns |-> PerOrderNs(result),
         throughput_mops |->
             RatDiv(result.throughput_ops_per_sec, Whole(1000000))]]

\* ------------------------------------------------------- plotter: the calls
\* data_size and time_ns of the results handed to add_result; the
\* scalability factors they give include 1.2, 1.5 and 2.0
SizeChoices == {1, 2}
TimeChoices == {10, 24, 30, 40}

\* name and operation type of the results handed to add_result
ResultKinds == {sample_data[1], sample_data[3]}

\* SimplePlotter::new()
InitPlotter ==
    /\ results = <<>>
    /\ report = NoReport
    /\ pc = "plotter"
    /\ order_map = EmptyMap
    /\ shard_lock = NoLocks
    /\ idx = 0
    /\ batch = 0
    /\ tasks = <<>>
    /\ workload = <<>>
    /\ outcome = <<>>
    /\ calls = <<>>
    /\ last = NoCall
    /\ fill_log = <<>>
    /\ FlattenIdle

plotterFrame ==
    <<order_map, shard_lock, pc, idx, batch, tasks, workload, outcome, calls,
      last, fill_log, flattenVars>>

\* plotter.add_result(result); the reports made before are of the old set
AddResult ==
    /\ Len(results) < MaxResults
    /\ \E kind \in ResultKinds, data_size \in SizeChoices,
          time_ns \in TimeChoices :
          results' = Append(results,
              NewBenchmarkResult(kind.name, kind.op_type, data_size, time_ns))
    /\ report' = NoReport
    /\ UNCHANGED plotterFrame

\* plotter.add_sample_results() on a new plotter, as both binaries call it
AddSampleResults ==
    /\ results = <<>>
    /\ results' = results \o SampleResults
    /\ report' = NoReport
    /\ UNCHANGED plotterFrame

\* plotter.print_ascii_chart()
PrintAsciiChart ==
    /\ report' = AsciiChart(results)
    /\ UNCHANGED <<results, plotterFrame>>

\* print_comparison_table sorting self.results itself instead of a clone
PrintComparisonTableInPlace ==
    /\ report' = [op |-> "print_comparison_table",
                  table |-> ComparisonRows(results)]
    /\ results' = StableSort(results, ByTypeThenSize(results))
    /\ UNCHANGED plotterFrame

\* plotter.print_comparison_table()
PrintComparisonTable ==
    /\ report' = [op |-> "print_comparison_table",
                  table |-> ComparisonRows(results)]
    /\ UNCHANGED <<results, plotterFrame>>

\* print_scalability_analysis taking the results out of self.results as it
\* groups them
PrintScalabilityAnalysisDraining ==
    /\ report' = [op |-> "print_scalability_analysis",
                  analysis |-> ScalabilityAnalysis(results)]
    /\ results' = <<>>
    /\ UNCHANGED plotterFrame

\* plotter.print_scalability_analysis()
PrintScalabilityAnalysis ==
    /\ report' = [op |-> "print_scalability_analysis",
                  analysis |-> ScalabilityAnalysis(results)]
    /\ UNCHANGED <<results, plotterFrame>>

\* the steps of generate_complete_report that can return Err, in the order
\* of the code: line 273; File::create and the writeln! calls of export_csv
\* (lines 188, 191-207); those of generate_markdown_report (lines 214,
\* 217-266); File::create and the writeln! calls of the text file (lines 283,
\* 292-295)
CompleteReportSteps ==
    <<"create_dir_all",
      "export_csv: create", "export_csv: write",
      "generate_markdown_report: create", "generate_markdown_report: write",
      "create_text_file", "write_text_file">>

\* the file that File::create of a step makes and the step whose writes
\* complete it (lines 276, 279, 282)
CompleteReportFiles ==
    <<[path |-> "benchmark_results.csv",
       create |-> "export_csv: create", write |-> "export_csv: write"],
      [path |-> "benchmark_report.md",
       create |-> "generate_markdown_report: create",
       write |-> "generate_markdown_report: write"],
      [path |-> "benchmark_analysis.txt",
       create |-> "create_text_file", write |-> "write_text_file"]>>

\* the files of CompleteReportFiles that pass holds for, in their order
RECURSIVE FilesMade(_, _)
FilesMade(i, made) ==
    IF i > Len(CompleteReportFiles) THEN <<>>
    ELSE (IF made[i].created
          THEN <<[path |-> CompleteReportFiles[i].path,
                  complete |-> made[i].written]>>
          ELSE <<>>) \o FilesMade(i + 1, made)

\* generate_complete_report undoing on Err what the steps before had made
GenerateCompleteReportRollingBack ==
    /\ \E failed \in 0..Len(CompleteReportSteps) :
        report' =
          [op |-> "generate_complete_report",
           result |-> IF failed = 0 THEN "Ok" ELSE "Err",
           failed |-> IF failed = 0 THEN "none" ELSE CompleteReportSteps[failed],
           dir |-> failed = 0,
           files |-> IF failed = 0
                     THEN FilesMade(1, [i \in DOMAIN CompleteReportFiles |->
                                         [created |-> TRUE, written |-> TRUE]])
                     ELSE <<>>,
           csv |-> IF failed = 0 THEN CsvRows(results) ELSE <<>>,
           markdown |-> IF failed = 0 THEN MarkdownRows(results) ELSE <<>>,
           printed |-> failed = 0,
           table |-> IF failed = 0 THEN ComparisonRows(results) ELSE <<>>,
           analysis |-> IF failed = 0 THEN ScalabilityAnalysis(results)
                        ELSE <<>>]
    /\ UNCHANGED <<results, plotterFrame>>

\* plotter.generate_complete_report(output_dir): the steps before the one
\* that fails are done, `?` returns at the failing one; failed = 0 when none
\* fails.  A file exists once its File::create returned Ok and is complete
\* once its writes did; the two print calls come after the text file is
\* created (lines 289-290).
GenerateCompleteReport ==
    /\ \E csv \in {CsvRows(results)}, markdown \in {MarkdownRows(results)},
          table \in {ComparisonRows(results)},
          analysis \in {ScalabilityAnalysis(results)},
          failed \in 0..Len(CompleteReportSteps) :
        LET reached(step) ==
                \/ failed = 0
                \/ \E i \in 1..(failed - 1) : CompleteReportSteps[i] = step
        IN
        report' =
          [op |-> "generate_complete_report",
           result |-> IF failed = 0 THEN "Ok" ELSE "Err",
           failed |-> IF failed = 0 THEN "none" ELSE CompleteReportSteps[failed],
           dir |-> reached("create_dir_all"),
           files |-> FilesMade(1, [i \in DOMAIN CompleteReportFiles |->
                        [created |-> reached(CompleteReportFiles[i].create),
                         written |-> reached(CompleteReportFiles[i].write)]]),
           csv |-> IF reached("export_csv: write") THEN csv ELSE <<>>,
           markdown |-> IF reached("generate_markdown_report: write")
                        THEN markdown ELSE <<>>,
           printed |-> reached("create_text_file"),
           table |-> IF reached("create_text_file") THEN table ELSE <<>>,
           analysis |-> IF reached("create_text_file") THEN analysis ELSE <<>>]
    /\ UNCHANGED <<results, plotterFrame>>

NextPlotter ==
    \/ AddResult \/ AddSampleResults
    \/ PrintAsciiChart \/ PrintComparisonTable \/ PrintScalabilityAnalysis
    \/ GenerateCompleteReport

SpecPlotter == InitPlotter /\ [][NextPlotter]_vars

\* ------------------------------------------------- plotter: the properties
\* the last reporting call printed the scalability analysis / the table
HasAnalysis ==
    \/ report.op = "print_scalability_analysis"
    \/ report.op = "generate_complete_report" /\ report.printed

HasTable ==
    \/ report.op = "print_comparison_table"
    \/ report.op = "generate_complete_report" /\ report.printed

\* the results of one operation type, as a set of indices into results
GroupIndices(op) == {i \in DOMAIN results : results[i].operation_type = op}

OperationTypes == {results[i].operation_type : i \in DOMAIN results}

\* C12: every group of at least two results is rated, with exactly the
\* rating of the band its factor f falls in, f being (last.time_us /
\* first.time_us) / (last.data_size / first.data_size) for a first result of
\* smallest and a last result of largest data_size of the group: f < 1.2
\* excellent, 1.2 <= f < 1.5 good, 1.5 <= f < 2.0 fair, f >= 2.0 poor.
RatingFollowsBands ==
    HasAnalysis =>
      \A op \in OperationTypes :
        Cardinality(GroupIndices(op)) >= 2 =>
          /\ op \in DOMAIN report.analysis
          /\ LET a == report.analysis[op]
                 f == a.scalability_factor
                 sizes == {results[i].data_size : i \in GroupIndices(op)}
             IN
             /\ \E i \in GroupIndices(op) : results[i] = a.first
             /\ \E i \in GroupIndices(op) : results[i] = a.last
             /\ \A n \in sizes : a.first.data_size <= n /\ n <= a.last.data_size
             /\ f = RatDiv(RatDiv(a.last.time_us, a.first.time_us),
                           RatDiv(Whole(a.last.data_size),
                                  Whole(a.first.data_size)))
             /\ f.den > 0
             /\ a.scalability_rating = "Excellent (Sub-linear)"
                    <=> 5 * f.num < 6 * f.den
             /\ a.scalability_rating = "Good (Near-linear)"
                    <=> (5 * f.num >= 6 * f.den /\ 2 * f.num < 3 * f.den)
             /\ a.scalability_rating = "Fair (Super-linear)"
                    <=> (2 * f.num >= 3 * f.den /\ f.num < 2 * f.den)
             /\ a.scalability_rating = "Poor (Exponential)"
                    <=> f.num >= 2 * f.den

\* a group on the edge of a band: sizes 1 and 2, times 10 ns and 30 ns, the
\* factor exactly 1.5, rated fair
FactorOnBandEdge ==
    /\ report.op = "print_scalability_analysis"
    /\ \E op \in DOMAIN report.analysis :
          /\ report.analysis[op].scalability_factor = Rat(3, 2)
          /\ report.analysis[op].size_ratio = Whole(2)
          /\ report.analysis[op].scalability_rating = "Fair (Super-linear)"

\* the analysis of the built-in sample set has been printed
SampleAnalysed ==
    /\ HasAnalysis
    /\ results = SampleResults

\* what the analysis says of the "Sync Single" sample group apart from the
\* rating: sizes 100 and 10000, times 46.5 us and 5870.0 us, size ratio 100,
\* factor within 0.001 of 1.263 (it is 587/465 = 1.26237)
SyncSingleFigures ==
    LET a == report.analysis["Sync Single"] IN
    /\ a.first.data_size = 100 /\ a.last.data_size = 10000
    /\ a.first.time_us = Rat(465, 10) /\ a.last.time_us = Whole(5870)
    /\ a.size_ratio = Whole(100)
    /\ 1000 * a.scalability_factor.num > 1262 * a.scalability_factor.den
    /\ 1000 * a.scalability_factor.num < 1264 * a.scalability_factor.den

\* C13 as stated: the "Sync Single" sample group (sizes 100 and 10000, times
\* 46.5 us and 5870.0 us) gets size ratio 100, factor about 1.263 and the
\* rating fair/super-linear.
SyncSingleSampleIsFair ==
    SampleAnalysed =>
        /\ "Sync Single" \in DOMAIN report.analysis
        /\ SyncSingleFigures
        /\ report.analysis["Sync Single"].scalability_rating
              = "Fair (Super-linear)"

\* C13 amended: the same group gets size ratio 100, factor about 1.263 and
\* the rating good/near-linear, the band 1.2 <= f < 1.5.
SyncSingleSampleIsGood ==
    SampleAnalysed =>
        /\ "Sync Single" \in DOMAIN report.analysis
        /\ SyncSingleFigures
        /\ report.analysis["Sync Single"].scalability_rating
              = "Good (Near-linear)"

\* the complete report of the sample set got as far as printing the analysis
SampleReportPrinted ==
    /\ report.op = "generate_complete_report"
    /\ report.printed
    /\ results = SampleResults

\* C14 as stated: a group gets a scalability factor only when its results
\* have at least two distinct data_size values.
FactorNeedsTwoSizes ==
    HasAnalysis =>
      \A op \in DOMAIN report.analysis :
        Cardinality({results[i].data_size : i \in GroupIndices(op)}) >= 2

\* C15: a reporting call (print_ascii_chart, print_comparison_table,
\* print_scalability_analysis, export_csv, generate_markdown_report,
\* generate_complete_report) leaves the result set as it was, the same
\* records in the same order; the result set changes only by add_result or
\* add_sample_results appending records at its end.
ReportingLeavesResults ==
    [][ /\ report'.op # "none" => results' = results
        /\ results' # results =>
              /\ report'.op = "none"
              /\ Len(results') > Len(results)
              /\ SubSeq(results', 1, Len(results)) = results ]_vars

\* the comparison table has been printed for two results of one operation
\* type that were added larger size first
TableOfUnsortedResults ==
    /\ report.op = "print_comparison_table"
    /\ Len(results) = 2
    /\ results[1].operation_type = results[2].operation_type
    /\ results[1].data_size > results[2].data_size
    /\ report.table[1].data_size < report.table[2].data_size

\* the result set with its records in the order p
Permuted(rs, p) == [i \in DOMAIN rs |-> rs[p[i]]]

\* C16 as stated: what the scalability analysis and the comparison table
\* derive is the same for every permutation of the records of the result
\* set, groups with several results of one data_size included.
AggregationIgnoresOrder ==
    Len(results) <= MaxResults =>
      \A p \in Orderings(DOMAIN results) :
        /\ HasAnalysis =>
              ScalabilityAnalysis(Permuted(results, p)) = report.analysis
        /\ HasTable =>
              ComparisonRows(Permuted(results, p)) = report.table

ArtifactOrder ==
    <<"benchmark_results.csv", "benchmark_report.md", "benchmark_analysis.txt">>

\* the step a failed call stopped at, read off what it left behind: the step
\* right after the last thing made
StoppedAt(r) ==
    LET n == Len(r.files) IN
    IF ~r.dir THEN "create_dir_all"
    ELSE IF n = 0 THEN "export_csv: create"
    ELSE IF ~r.files[n].complete
         THEN CASE n = 1 -> "export_csv: write"
                [] n = 2 -> "generate_markdown_report: write"
                [] OTHER -> "write_text_file"
    ELSE CASE n = 1 -> "generate_markdown_report: create"
           [] n = 2 -> "create_text_file"
           [] OTHER -> "none"

\* C21: generate_complete_report makes the directory, then the CSV, then the
\* Markdown report, then the analysis text file; when a step fails the call
\* returns Err at that step, nothing of a later step is made, every artifact
\* of an earlier step is in place and complete, and the result set is as it
\* was; when no step fails all three files are in place and complete.
ArtifactsInOrderNoRollback ==
    [][ report'.op = "generate_complete_report" =>
          LET r == report'
              n == Len(r.files)
          IN
          /\ results' = results
          /\ n <= Len(ArtifactOrder)
          /\ \A i \in 1..n : r.files[i].path = ArtifactOrder[i]
          /\ n > 0 => r.dir
          /\ \A i \in 1..(n - 1) : r.files[i].complete
          /\ r.result \in {"Ok", "Err"}
          /\ r.result = "Ok" <=> r.failed = "none"
          /\ r.failed = StoppedAt(r) ]_vars

\* a complete report of a non-empty result set failed while writing the
\* Markdown report: the CSV is complete, the Markdown file is there in part,
\* no text file
MarkdownWriteFailed ==
    /\ report.op = "generate_complete_report"
    /\ report.result = "Err"
    /\ report.failed = "generate_markdown_report: write"
    /\ Len(results) >= 1
    /\ report.csv = CsvRows(results)
    /\ report.files = <<[path |-> "benchmark_results.csv", complete |-> TRUE],
                        [path |-> "benchmark_report.md", complete |-> FALSE]>>

\* ------------------------------------------------------ parse_benchmark_name
\* A name is a sequence of pieces of text: the separator "/", single
\* characters, and identifiers that hold neither "/" nor a digit nor a sign.
\* A segment is a name without "/".

\* the name whose split('/') is parts
RECURSIVE Join(_)
Join(parts) ==
    IF Len(parts) = 1 THEN parts[1]
    ELSE parts[1] \o <<"/">> \o Join(Tail(parts))

\* name.split('/').collect(): at least one part, empty parts kept
RECURSIVE Split(_)
Split(name) ==
    IF \A i \in DOMAIN name : name[i] # "/" THEN <<name>>
    ELSE LET k == CHOOSE i \in DOMAIN name :
                      name[i] = "/" /\ \A j \in 1..(i - 1) : name[j] # "/"
         IN  <<SubSeq(name, 1, k - 1)>> \o Split(SubSeq(name, k + 1, Len(name)))

\* usize::MAX of a 64-bit target, 18446744073709551615, digit by digit
UsizeMaxDigits ==
    <<"1", "8", "4", "4", "6", "7", "4", "4", "0", "7",
      "3", "7", "0", "9", "5", "5", "1", "6", "1", "5">>

RECURSIVE StripZeros(_)
StripZeros(ds) ==
    IF ds # <<>> /\ ds[1] = "0" THEN StripZeros(Tail(ds)) ELSE ds

\* ds <= UsizeMaxDigits for two digit strings of one length
RECURSIVE DigitsLeq(_, _)
DigitsLeq(ds, max) ==
    \/ ds = <<>>
    \/ DigitValue(ds[1]) < DigitValue(max[1])
    \/ ds[1] = max[1] /\ DigitsLeq(Tail(ds), Tail(max))

\* the checked multiply-and-add of the integer parser does not overflow
FitsUsize(ds) ==
    LET sig == StripZeros(ds) IN
    \/ Len(sig) < Len(UsizeMaxDigits)
    \/ Len(sig) = Len(UsizeMaxDigits) /\ DigitsLeq(sig, UsizeMaxDigits)

RECURSIVE DigitsValue(_)
DigitsValue(ds) ==
    IF ds = <<>> THEN 0
    ELSE 10 * DigitsValue(SubSeq(ds, 1, Len(ds) - 1)) + DigitValue(ds[Len(ds)])

\* last_part.parse::<usize>(): an optional "+", then one digit or more, the
\* value within usize; anything else is Err
ParseUsize(seg) ==
    LET ds == IF seg # <<>> /\ seg[1] = "+" THEN Tail(seg) ELSE seg IN
    IF /\ ds # <<>>
       /\ \A i \in DOMAIN ds : IsDigit(ds[i])
       /\ FitsUsize(ds)
    THEN [ok |-> TRUE, value |-> DigitsValue(StripZeros(ds))]
    ELSE [ok |-> FALSE, value |-> 0]

\* the match of lines 91-100 on (parts[0], parts[1])
OperationTypeOf(operation, strategy) ==
    CASE operation = "sync_order_operations" /\ strategy = "single_threaded"
            -> "Sync Single"
      [] operation = "sync_order_operations" /\ strategy = "concurrent"
            -> "Sync Concurrent"
      [] operation = "async_order_operations" /\ strategy = "async"
            -> "Async"
      [] operation = "order_flattening" /\ strategy = "sync"
            -> "Flatten Sync"
      [] operation = "order_flattening" /\ strategy = "async"
            -> "Flatten Async"
      [] operation = "hft_order_simulation"
            -> "HFT Simulation"
      [] operation = "trillion_scale_orders"
            -> "Trillion Scale"
      [] OTHER -> operation \o " " \o strategy

\* parse_benchmark_name with unwrap_or(0) for the size
parse_benchmark_name_or_zero(name) ==
    LET parts == Split(name)
        parsed == ParseUsize(parts[Len(parts)])
    IN  [operation_type |->
            IF Len(parts) >= 2
            THEN OperationTypeOf(Render(parts[1]), Render(parts[2]))
            ELSE Render(parts[1]),
         data_size |-> IF parsed.ok THEN parsed.value ELSE 0]

\* parse_benchmark_name(name)
parse_benchmark_name(name) ==
    LET parts == Split(name)
        parsed == ParseUsize(parts[Len(parts)])
    IN  [operation_type |->
            IF Len(parts) >= 2
            THEN OperationTypeOf(Render(parts[1]), Render(parts[2]))
            ELSE Render(parts[1]),
         data_size |-> IF parsed.ok THEN parsed.value ELSE 1]

\* the identifiers of the benchmark groups and functions (lines 92-98) and
\* one that is none of them
NameWords ==
    {"sync_order_operations", "async_order_operations", "order_flattening",
     "hft_order_simulation", "trillion_scale_orders",
     "single_threaded", "concurrent", "async", "sync", "other"}

\* twenty 9s: more than usize::MAX
TwentyNines == [i \in 1..20 |-> "9"]

\* the segments names are made of: the identifiers, sizes as the benches
\* format them ("100", "10000", "5x100"), and other texts
SegmentChoices ==
    {<<w>> : w \in NameWords}
    \cup {<<>>, <<"0">>, <<"1">>, <<"1", "0", "0">>, <<"0", "0", "7">>,
          <<"1", "0", "0", "0", "0">>, <<"5", "x", "1", "0", "0">>,
          <<"+", "5">>, <<"-", "5">>, TwentyNines}

NameParts == UNION {[1..n -> SegmentChoices] : n \in 1..MaxSegments}

\* a name to parse
InitParse ==
    /\ \E parts \in NameParts : workload = [parts |-> parts, name |-> Join(parts)]
    /\ pc = "parse"
    /\ outcome = <<>>
    /\ order_map = EmptyMap
    /\ shard_lock = NoLocks
    /\ idx = 0
    /\ batch = 0
    /\ tasks = <<>>
    /\ calls = <<>>
    /\ last = NoCall
    /\ fill_log = <<>>
    /\ FlattenIdle
    /\ PlotterIdle

\* let (operation_type, data_size) = parse_benchmark_name(&name)
ParseBenchmarkName ==
    /\ pc = "parse"
    /\ outcome' = parse_benchmark_name(workload.name)
    /\ pc' = "parsed"
    /\ UNCHANGED <<order_map, shard_lock, idx, batch, tasks, workload, calls,
                   last, fill_log, flattenVars, plotterVars>>

NextParse == ParseBenchmarkName

SpecParse == InitParse /\ [][NextParse]_vars

\* the size a trailing segment stands for: its value when it is an unsigned
\* integer a usize holds, 1 when it is not
StatedSize(seg) ==
    CASE seg = <<"0">> -> 0
      [] seg = <<"1">> -> 1
      [] seg = <<"1", "0", "0">> -> 100
      [] seg = <<"0", "0", "7">> -> 7
      [] seg = <<"1", "0", "0", "0", "0">> -> 10000
      [] seg = <<"+", "5">> -> 5
      [] OTHER -> 1

\* C20: the operation type comes from the first two segments, the known
\* pairs giving their label and any other pair "{operation} {strategy}";
\* data_size is the value of the trailing segment when that is an unsigned
\* integer and the literal 1 when it is not, whatever the number of segments.
NameParsedAsStated ==
    pc = "parsed" =>
      LET parts == workload.parts
          operation == Render(parts[1])
          strategy == Render(parts[2])
          known == {"sync_order_operations", "async_order_operations",
                    "order_flattening", "hft_order_simulation",
                    "trillion_scale_orders"}
          label == outcome.operation_type
      IN
      /\ outcome.data_size = StatedSize(parts[Len(parts)])
      /\ Len(parts) >= 2 =>
          /\ operation = "sync_order_operations" =>
                /\ strategy = "single_threaded" => label = "Sync Single"
                /\ strategy = "concurrent" => label = "Sync Concurrent"
                /\ strategy \notin {"single_threaded", "concurrent"} =>
                      label = operation \o " " \o strategy
          /\ operation = "async_order_operations" =>
                label = IF strategy = "async" THEN "Async"
                        ELSE operation \o " " \o strategy
          /\ operation = "order_flattening" =>
                /\ strategy = "sync" => label = "Flatten Sync"
                /\ strategy = "async" => label = "Flatten Async"
                /\ strategy \notin {"sync", "async"} =>
                      label = operation \o " " \o strategy
          /\ operation = "hft_order_simulation" => label = "HFT Simulation"
          /\ operation = "trillion_scale_orders" => label = "Trillion Scale"
          /\ operation \notin known => label = operation \o " " \o strategy

\* a flatten benchmark name with its "5x100" identifier has been parsed
FlattenNameParsed ==
    /\ pc = "parsed"
    /\ workload.name = <<"order_flattening", "/", "sync", "/",
                         "5", "x", "1", "0", "0">>
    /\ outcome = [operation_type |-> "Flatten Sync", data_size |-> 1]

\* ------------------------------------------- plot_results: reading the input
\* What base/estimates.json of a benchmark directory may be: absent, not
\* readable, not JSON, JSON without "mean", without "point_estimate", with a
\* point_estimate that is no number, or with the number given (nanoseconds).
PointEstimates == {0, 46500}

NoEstimate == [content |-> "absent", point_estimate |-> 0]

EstimateChoices ==
    [content : {"absent", "unreadable", "not_json", "no_mean",
                "no_point_estimate", "not_a_number"},
     point_estimate : {0}]
    \cup [content : {"number"}, point_estimate : PointEstimates]

\* names of the entries: one path component each, so without "/"
EntryNames ==
    {<<"sync_order_operations">>, <<"0">>, <<"1", "0", "0">>,
     <<"5", "x", "1", "0", "0">>, <<"bench", ",", "v2">>}

\* an entry read_dir yields: an Err, a file, or a directory with its estimates
EntryChoices ==
    [kind : {"error", "file"}, name : EntryNames, estimates : {NoEstimate}]
    \cup [kind : {"dir"}, name : EntryNames, estimates : EstimateChoices]

\* the entries of a directory, in the order read_dir yields them; no two of
\* one name
Directories ==
    UNION {{es \in [1..n -> EntryChoices] :
               \A i, j \in 1..n : es[i].name = es[j].name => i = j}
           : n \in 0..MaxEntries}

\* main of plot_results at line 9: a new plotter, and target/criterion absent,
\* not readable, or a directory
InitIngest ==
    /\ \/ workload = [exists |-> FALSE, readable |-> FALSE, entries |-> <<>>]
       \/ workload = [exists |-> TRUE, readable |-> FALSE, entries |-> <<>>]
       \/ \E es \in Directories :
             workload = [exists |-> TRUE, readable |-> TRUE, entries |-> es]
    /\ pc = "main"
    /\ idx = 0
    /\ outcome = <<>>
    /\ results = <<>>
    /\ report = NoReport
    /\ order_map = EmptyMap
    /\ shard_lock = NoLocks
    /\ batch = 0
    /\ tasks = <<>>
    /\ calls = <<>>
    /\ last = NoCall
    /\ fill_log = <<>>
    /\ FlattenIdle

ingestFrame ==
    <<order_map, shard_lock, batch, tasks, workload, calls, last, fill_log,
      flattenVars, report>>

\* lines 24-28: no directory, the sample results are added
NoCriterionDir ==
    /\ pc = "main"
    /\ ~workload.exists
    /\ results' = results \o SampleResults
    /\ pc' = "report"
    /\ UNCHANGED <<idx, outcome, ingestFrame>>

\* lines 13-15 and 46-49: the directory exists and parse_criterion_results
\* starts; fs::read_dir(..)? returns Err when it cannot be read, and main
\* adds the sample results (lines 20-22)
StartParse ==
    /\ pc = "main"
    /\ workload.exists
    /\ IF workload.readable
       THEN /\ pc' = "parse_criterion_results"
            /\ idx' = 1
            /\ outcome' = <<>>
            /\ UNCHANGED results
       ELSE /\ pc' = "report"
            /\ results' = results \o SampleResults
            /\ UNCHANGED <<idx, outcome>>
    /\ UNCHANGED ingestFrame

\* the result lines 59-73 recover from a benchmark directory: one when the
\* estimates hold a number, none otherwise
ResultsOfEntry(entry) ==
    IF entry.kind = "dir" /\ entry.estimates.content = "number"
    THEN LET parsed == parse_benchmark_name(entry.name) IN
         <<NewBenchmarkResult(Render(entry.name), parsed.operation_type,
                              parsed.data_size, entry.estimates.point_estimate)>>
    ELSE <<>>

\* one turn of the loop of lines 49-81: `entry?` returns Err and main adds
\* the sample results, or the entry is looked at and the loop goes on
ParseEntry ==
    /\ pc = "parse_criterion_results"
    /\ idx <= Len(workload.entries)
    /\ LET entry == workload.entries[idx] IN
       IF entry.kind = "error"
       THEN /\ pc' = "report"
            /\ results' = results \o SampleResults
            /\ UNCHANGED <<idx, outcome>>
       ELSE /\ outcome' = outcome \o ResultsOfEntry(entry)
            /\ idx' = idx + 1
            /\ UNCHANGED <<pc, results>>
    /\ UNCHANGED ingestFrame

\* line 83 and lines 15-19: Ok(results), and main adds each result
ParseReturnsOk ==
    /\ pc = "parse_criterion_results"
    /\ idx > Len(workload.entries)
    /\ results' = results \o outcome
    /\ pc' = "report"
    /\ UNCHANGED <<idx, outcome, ingestFrame>>

NextIngest == NoCriterionDir \/ StartParse \/ ParseEntry \/ ParseReturnsOk

SpecIngest == InitIngest /\ [][NextIngest]_vars

\* main has reached line 32: the result set is handed to report generation
HandedToReport == pc = "report"

\* no result can be recovered from the input: the directory is absent or
\* cannot be read, or no entry of it is a directory with a number for
\* point estimate
NothingRecovered ==
    \/ ~workload.exists
    \/ ~workload.readable
    \/ \A i \in DOMAIN workload.entries :
          \/ workload.entries[i].kind # "dir"
          \/ workload.entries[i].estimates.content # "number"

\* C18 as stated: when the directory is absent, or present with nothing to
\* recover from its point-estimate files, the result set handed to report
\* generation is the built-in sample set of 9 records, never an empty one.
FallsBackToSamples ==
    HandedToReport =>
        /\ NothingRecovered => results = SampleResults /\ Len(results) = 9
        /\ results # <<>>

\* C19 as stated: every result of the result set has data_size >= 1 and
\* time_ns > 0, whatever the names and the point estimates of the input.
SizesAndTimesPositive ==
    \A i \in DOMAIN results :
        /\ results[i].data_size >= 1
        /\ results[i].time_ns.num > 0

\* --------------------------------------------------- export_csv: the file
\* the results export_csv is given: those of the sample set and those
\* parse_criterion_results recovers from a benchmark directory
CsvRecords ==
    {SampleResults[i] : i \in DOMAIN SampleResults}
    \cup {ResultsOfEntry([kind |-> "dir", name |-> name,
                          estimates |-> [content |-> "number",
                                         point_estimate |-> t]])[1]
          : name \in EntryNames, t \in PointEstimates}

\* what a call that creates one file and writes to it may come to: Ok, or
\* Err from File::create (no file), or Err from a write (the file in part)
FileOutcomes == {"Ok", "Err: create", "Err: write"}

\* a plotter holding a result set
InitCsv ==
    /\ \E n \in 0..MaxResults : results \in [1..n -> CsvRecords]
    /\ report = NoReport
    /\ pc = "plotter"
    /\ order_map = EmptyMap
    /\ shard_lock = NoLocks
    /\ idx = 0
    /\ batch = 0
    /\ tasks = <<>>
    /\ workload = <<>>
    /\ outcome = <<>>
    /\ calls = <<>>
    /\ last = NoCall
    /\ fill_log = <<>>
    /\ FlattenIdle

\* plotter.export_csv(output_path) (lines 187-211)
ExportCsv ==
    /\ \E written \in FileOutcomes :
          report' = [op |-> "export_csv",
                     result |-> IF written = "Ok" THEN "Ok" ELSE "Err",
                     file |-> written # "Err: create",
                     csv |-> IF written = "Ok" THEN CsvLines(results) ELSE <<>>]
    /\ UNCHANGED <<results, plotterFrame>>

NextCsv == ExportCsv

SpecCsv == InitCsv /\ [][NextCsv]_vars

\* line.split(','): at least one field, empty fields kept
RECURSIVE CommaSplit(_)
CommaSplit(line) ==
    IF \A i \in DOMAIN line : line[i] # "," THEN <<line>>
    ELSE LET k == CHOOSE i \in DOMAIN line :
                      line[i] = "," /\ \A j \in 1..(i - 1) : line[j] # ","
         IN  <<SubSeq(line, 1, k - 1)>>
             \o CommaSplit(SubSeq(line, k + 1, Len(line)))

\* 10^n
RECURSIVE Pow10(_)
Pow10(n) == IF n = 0 THEN 1 ELSE 10 * Pow10(n - 1)

\* field.parse::<f64>() on the texts Display of an f64 gives: an optional
\* sign, digits, an optional "." with digits; "inf" and "NaN"
ParseF64(seg) ==
    LET negative == seg # <<>> /\ seg[1] = "-"
        body == IF negative THEN Tail(seg) ELSE seg
        dots == {i \in DOMAIN body : body[i] = "."}
        dot == IF dots = {} THEN Len(body) + 1 ELSE CHOOSE i \in dots : TRUE
        whole == SubSeq(body, 1, dot - 1)
        fraction == SubSeq(body, dot + 1, Len(body))
        sign == IF negative THEN -1 ELSE 1
    IN
    IF body = <<"inf">> THEN [ok |-> TRUE, value |-> Rat(sign, 0)]
    ELSE IF body = <<"NaN">> THEN [ok |-> TRUE, value |-> Rat(0, 0)]
    ELSE IF /\ Cardinality(dots) <= 1
            /\ whole \o fraction # <<>>
            /\ \A i \in DOMAIN whole : IsDigit(whole[i])
            /\ \A i \in DOMAIN fraction : IsDigit(fraction[i])
         THEN [ok |-> TRUE,
               value |-> Rat(sign * DigitsValue(whole \o fraction),
                             Pow10(Len(fraction)))]
         ELSE [ok |-> FALSE, value |-> Rat(0, 0)]

\* the position of a column in the header line
ColumnOf(header, column) ==
    CHOOSE i \in DOMAIN CommaSplit(header) : CommaSplit(header)[i] = <<column>>

\* the (operation_type, data_size, time_ns) read from a line by the header's
\* column positions; ok when the line has the columns and the numbers parse
ReadRow(header, line) ==
    LET fields == CommaSplit(line)
        at(column) == fields[ColumnOf(header, column)]
        present == \A column \in {"operation_type", "data_size", "time_ns"} :
                      ColumnOf(header, column) <= Len(fields)
        size == ParseUsize(at("data_size"))
        time == ParseF64(at("time_ns"))
    IN
    IF present /\ size.ok /\ time.ok
    THEN [ok |-> TRUE, operation_type |-> Render(at("operation_type")),
          data_size |-> size.value, time_ns |-> time.value]
    ELSE [ok |-> FALSE, operation_type |-> "", data_size |-> 0,
          time_ns |-> Rat(0, 0)]

\* C22 as stated: the file export_csv writes is one header line and one line
\* per record in the order of the result set, and reading each line by the
\* header's column positions, split on commas, gives the operation_type,
\* data_size and time_ns of the record at that position, for every result
\* set, records ingested from a directory name included.
CsvRoundTrips ==
    (report.op = "export_csv" /\ report.result = "Ok") =>
        /\ Len(report.csv) = 1 + Len(results)
        /\ \A column \in {"operation_type", "data_size", "time_ns"} :
              \E i \in DOMAIN CommaSplit(report.csv[1]) :
                  CommaSplit(report.csv[1])[i] = <<column>>
        /\ \A i \in DOMAIN results :
              LET row == ReadRow(report.csv[1], report.csv[i + 1]) IN
              /\ row.ok
              /\ row.operation_type = results[i].operation_type
              /\ row.data_size = results[i].data_size
              /\ row.time_ns = results[i].time_ns

\* the same round trip for the result sets none of whose names or operation
\* types holds a comma
CsvRoundTripsWithoutCommas ==
    (\A i \in DOMAIN results :
        /\ Pieces(results[i].name) = <<results[i].name>>
        /\ Pieces(results[i].operation_type) = <<results[i].operation_type>>)
    => CsvRoundTrips

====
